---- MODULE Spec2Model ----
(***************************************************************************)
(* Model of the mixing engine of lib-sample-track (Mix.cpp): class Mixer,  *)
(* its constructor, Process, GetBuffer, Reposition, SetTimesAndSpeed and   *)
(* SetSpeedForKeyboardScrubbing.                                           *)
(*                                                                         *)
(* Samples, gains and times are integers.  Output channels, frames,        *)
(* input tracks and sources are indexed from 0 as in the code; only the    *)
(* logs kept in the variable call are TLA+ sequences (indexed from 1).     *)
(***************************************************************************)
EXTENDS Integers, Sequences, FiniteSets, TLC

VARIABLES
    mNumChannels,      \* Mixer::mNumChannels
    mBufferSize,       \* Mixer::mBufferSize
    mApplyTrackGains,  \* Mixer::mApplyTrackGains
    mInterleaved,      \* Mixer::mInterleaved
    mFormat,           \* Mixer::mFormat
    inputTracks,       \* the constructor's inputTracks
    mixerSpec,         \* the caller's MixerSpec (or absent)
    mSources,          \* Mixer::mSources
    mTimesAndSpeed,    \* *Mixer::mTimesAndSpeed: mT0, mT1, mSpeed, mTime
    mTemp,             \* Mixer::mTemp, the accumulation buffers
    mBuffer,           \* Mixer::mBuffer, the output buffers
    srcState,          \* state of each source: "Idle" or "Exhausted"
    call,              \* the last call made on the mixer and what it did,
                       \* with what GetChannelGain gave during it (gainOf)
    ctor,              \* the constructor's loop over the input tracks: its
                       \* index i, the iterations made, and whether it runs
    race,              \* a Process on the audio thread and a control call on
                       \* another thread, statement by statement: where each
                       \* stands and the locals it holds
    upload             \* DataUploader: mResponses, the uploads started, and
                       \* for each what its requests and callbacks have been

vars == <<mNumChannels, mBufferSize, mApplyTrackGains, mInterleaved, mFormat,
          inputTracks, mixerSpec, mSources, mTimesAndSpeed, mTemp, mBuffer,
          srcState, call, ctor, race, upload>>

config == <<mNumChannels, mBufferSize, mApplyTrackGains, mInterleaved, mFormat,
            inputTracks, mixerSpec, mSources, ctor, race, upload>>

----------------------------------------------------------------------------
(* Bounds of the model *)

MaxTime == 1      \* playback bounds passed by callers lie in 0..MaxTime
MaxFrames == 2    \* the block size (outBufferSize) of the modelled mixers
MaxIterations == 5  \* iterations of the constructor's loop that are followed
MaxUploads == 1   \* uploads started through DataUploader::Upload

(* Program constants *)

\* MaxFloatChannels following the number of output channels
MaxFloatChannelsAsOutputs == mNumChannels

\* mFloatBuffers{ 2, mBufferSize, 1, 1 }: the sources' working buffers have
\* two channels
MaxFloatChannels == 2

\* std::numeric_limits<double>::max(), above every other time of the model
DBL_MAX == MaxTime + 4

----------------------------------------------------------------------------
(* Helpers *)

Idx(n) == 0..(n - 1)

Min(a, b) == IF a <= b THEN a ELSE b

Max(a, b) == IF a >= b THEN a ELSE b

\* fabs left out: the speed stored as given
fabsLeftOut(x) == x

fabs(x) == IF x < 0 THEN 0 - x ELSE x

ZeroBased(seq) == [i \in Idx(Len(seq)) |-> seq[i + 1]]

\* std::clamp left out: the value as given
ClampOutcomesUnclamped(v, lo, hi) == {v}

\* std::clamp(v, lo, hi); its behaviour is undefined when hi < lo, and then
\* the result is any of the three values an implementation can return
ClampOutcomes(v, lo, hi) ==
    IF lo <= hi
    THEN {IF v < lo THEN lo ELSE IF hi < v THEN hi ELSE v}
    ELSE {v, lo, hi}

----------------------------------------------------------------------------
(* Construction *)

NoMixerSpec == [present |-> FALSE]

\* SourcesFrom making a source of every track, stepping by one
RECURSIVE SourcesFromPerTrack(_, _, _)
SourcesFromPerTrack(i, tracks, hasSpec) ==
    LET nTracks == Cardinality(DOMAIN tracks)
    IN  IF i >= nTracks THEN <<>>
        ELSE LET leader == tracks[i]
                 nInChannels == leader.nChannels
             IN  IF leader.isNull \/ i + nInChannels > nTracks
                 THEN <<>>
                 ELSE <<[leader |-> i, nChannels |-> nInChannels,
                         hasMap |-> hasSpec]>>
                      \o SourcesFromPerTrack(i + 1, tracks, hasSpec)

\* The loop of the constructor over the input tracks, from index i on
RECURSIVE SourcesFrom(_, _, _)
SourcesFrom(i, tracks, hasSpec) ==
    LET nTracks == Cardinality(DOMAIN tracks)
    IN  IF i >= nTracks THEN <<>>
        ELSE LET leader == tracks[i]
                 nInChannels == leader.nChannels
             IN  IF leader.isNull \/ i + nInChannels > nTracks
                 THEN <<>>
                 ELSE <<[leader |-> i, nChannels |-> nInChannels,
                         hasMap |-> hasSpec]>>
                      \o SourcesFrom(i + nInChannels, tracks, hasSpec)

\* DataUploader with no upload started
NoUploads == [mResponses |-> <<>>, started |-> 0, log |-> <<>>]

\* No call in progress on either thread
NoCalls ==
    [audio |-> "idle", control |-> "idle", first |-> "none",
     overlapped |-> FALSE, ret |-> "none", next |-> 0, oldTime |-> 0,
     t0 |-> 0, backwards |-> FALSE, v |-> 0, hi |-> 0,
     op |-> "none", args |-> <<>>, t |-> 0, cBackwards |-> FALSE,
     cV |-> 0, cLo |-> 0, cHi |-> 0]

\* The value of i when the loop has made these sources
LoopEnd(sources) ==
    IF Len(sources) = 0 THEN 0
    ELSE sources[Len(sources)].leader + sources[Len(sources)].nChannels

\* UsesMixerSpec without the comparison of the dimensions
UsesMixerSpecUnchecked(spec, numOutChannels, tracks) == spec.present

\* pMixerSpec: the mixer specification is used only when its dimensions match
UsesMixerSpec(spec, numOutChannels, tracks) ==
    /\ spec.present
    /\ spec.numChannels = numOutChannels
    /\ spec.numTracks = Cardinality(DOMAIN tracks)

\* AllocatedBuffers with bufferSize samples in every buffer
AllocatedBuffersUnscaled(numOutChannels, bufferSize, interleaved) ==
    [b \in Idx(IF interleaved THEN 1 ELSE numOutChannels) |->
        [f \in Idx(bufferSize) |-> <<>>]]

\* AllocatedBuffers with one buffer whatever the layout
AllocatedBuffersOne(numOutChannels, bufferSize, interleaved) ==
    [b \in Idx(1) |->
        [f \in Idx(bufferSize * (IF interleaved THEN numOutChannels ELSE 1))
            |-> <<>>]]

\* SampleBuffer::Allocate leaves the samples uninitialized: <<>> stands for a
\* sample slot that has not been written
AllocatedBuffers(numOutChannels, bufferSize, interleaved) ==
    [b \in Idx(IF interleaved THEN 1 ELSE numOutChannels) |->
        [f \in Idx(bufferSize * (IF interleaved THEN numOutChannels ELSE 1))
            |-> <<>>]]

\* Mixer::Mixer: the state of a mixer once constructed
Mixer(tracks, startTime, stopTime, initialSpeed, numOutChannels, outBufferSize, outInterleaved, outFormat, spec, applyTrackGains) ==
    /\ mNumChannels = numOutChannels
    /\ mBufferSize = outBufferSize
    /\ mApplyTrackGains = applyTrackGains
    /\ mInterleaved = outInterleaved
    /\ mFormat = outFormat
    /\ inputTracks = tracks
    /\ mixerSpec = spec
    /\ mTimesAndSpeed = [mT0 |-> startTime, mT1 |-> stopTime,
                         mSpeed |-> initialSpeed, mTime |-> startTime]
    /\ mTemp = [c \in Idx(numOutChannels) |-> [f \in Idx(outBufferSize) |-> 0]]
    /\ mBuffer = AllocatedBuffers(numOutChannels, outBufferSize, outInterleaved)
    /\ mSources = ZeroBased(SourcesFrom(0, tracks,
                     UsesMixerSpec(spec, numOutChannels, tracks)))
    /\ srcState = [s \in DOMAIN mSources |-> "Idle"]
    /\ call = [op |-> "Mixer", args |-> <<>>, ret |-> 0, asked |-> <<>>,
               mixed |-> <<>>, repos |-> <<>>, gainOf |-> <<>>]
    /\ ctor = [i |-> LoopEnd(SourcesFrom(0, tracks,
                          UsesMixerSpec(spec, numOutChannels, tracks))),
               iterations |-> Len(SourcesFrom(0, tracks,
                          UsesMixerSpec(spec, numOutChannels, tracks))),
               running |-> FALSE]
    /\ race = NoCalls
    /\ upload = NoUploads

\* The members as the constructor's body finds them, before its loop over the
\* input tracks has made any source
MixerBody(tracks, startTime, stopTime, initialSpeed, numOutChannels, outBufferSize, outInterleaved, outFormat, spec, applyTrackGains) ==
    /\ mNumChannels = numOutChannels
    /\ mBufferSize = outBufferSize
    /\ mApplyTrackGains = applyTrackGains
    /\ mInterleaved = outInterleaved
    /\ mFormat = outFormat
    /\ inputTracks = tracks
    /\ mixerSpec = spec
    /\ mTimesAndSpeed = [mT0 |-> startTime, mT1 |-> stopTime,
                         mSpeed |-> initialSpeed, mTime |-> startTime]
    /\ mTemp = [c \in Idx(numOutChannels) |-> [f \in Idx(outBufferSize) |-> 0]]
    /\ mBuffer = AllocatedBuffers(numOutChannels, outBufferSize, outInterleaved)
    /\ mSources = ZeroBased(<<>>)
    /\ srcState = ZeroBased(<<>>)
    /\ call = [op |-> "Mixer", args |-> <<>>, ret |-> 0, asked |-> <<>>,
               mixed |-> <<>>, repos |-> <<>>, gainOf |-> <<>>]
    /\ ctor = [i |-> 0, iterations |-> 0, running |-> TRUE]
    /\ race = NoCalls
    /\ upload = NoUploads

\* for (size_t i = 0; i < nTracks;): the loop ends when i has reached nTracks
MixerLoopEnd ==
    /\ ctor.running
    /\ ctor.i >= Cardinality(DOMAIN inputTracks)
    /\ ctor' = [ctor EXCEPT !.running = FALSE]
    /\ UNCHANGED <<mNumChannels, mBufferSize, mApplyTrackGains, mInterleaved,
                   mFormat, inputTracks, mixerSpec, mSources, mTimesAndSpeed,
                   mTemp, mBuffer, srcState, call, race, upload>>

\* if (!leader || i + nInChannels > nTracks) break;
MixerLoopBreak ==
    /\ ctor.running
    /\ ctor.i < Cardinality(DOMAIN inputTracks)
    /\ \/ inputTracks[ctor.i].isNull
       \/ ctor.i + inputTracks[ctor.i].nChannels > Cardinality(DOMAIN inputTracks)
    /\ ctor' = [ctor EXCEPT !.running = FALSE]
    /\ UNCHANGED <<mNumChannels, mBufferSize, mApplyTrackGains, mInterleaved,
                   mFormat, inputTracks, mixerSpec, mSources, mTimesAndSpeed,
                   mTemp, mBuffer, srcState, call, race, upload>>

\* One iteration that passes the test: a source is made of the leader at i,
\* and i moves on by the size of the leader's channel group
MixerLoopEmplace ==
    /\ ctor.running
    /\ ctor.iterations < MaxIterations
    /\ ctor.i < Cardinality(DOMAIN inputTracks)
    /\ ~inputTracks[ctor.i].isNull
    /\ ctor.i + inputTracks[ctor.i].nChannels <= Cardinality(DOMAIN inputTracks)
    /\ LET made == Cardinality(DOMAIN mSources)
           source == [leader |-> ctor.i,
                      nChannels |-> inputTracks[ctor.i].nChannels,
                      hasMap |-> UsesMixerSpec(mixerSpec, mNumChannels,
                                               inputTracks)]
       IN  /\ mSources' = [s \in Idx(made + 1) |->
                              IF s < made THEN mSources[s] ELSE source]
           /\ srcState' = [s \in Idx(made + 1) |-> "Idle"]
    /\ ctor' = [ctor EXCEPT !.i = ctor.i + inputTracks[ctor.i].nChannels,
                            !.iterations = ctor.iterations + 1]
    /\ UNCHANGED <<mNumChannels, mBufferSize, mApplyTrackGains, mInterleaved,
                   mFormat, inputTracks, mixerSpec, mTimesAndSpeed, mTemp,
                   mBuffer, call, race, upload>>

----------------------------------------------------------------------------
(* The sources, as the mixer sees them *)

NumSources == Cardinality(DOMAIN mSources)

\* MixerSource::Channels
Channels(s) == mSources[s].nChannels

\* MixerSource::GetChannel(j): the index in inputTracks of channel j
GetChannel(s, j) == mSources[s].leader + j

NoMap == [isNull |-> TRUE]

\* MixerSource::MixerSpec(j): the row of the map given at construction
MixerSpec(s, j) ==
    IF mSources[s].hasMap
    THEN [isNull |-> FALSE, row |-> mixerSpec.mMap[mSources[s].leader + j]]
    ELSE NoMap

\* What one call of MixerSource::Acquire(data, bound) can give: none, or a
\* count of at most bound frames with that many samples in each of the
\* channels the source fills.  An exhausted source gives none.
AcquireOutcomes(s, bound, sampleSet) ==
    {[ok |-> FALSE, n |-> 0, data |-> <<>>]}
    \cup
    (IF srcState[s] = "Exhausted" THEN {}
     ELSE UNION {
        {[ok |-> TRUE, n |-> n, data |-> d] :
            d \in [Idx(Min(Channels(s), MaxFloatChannels)) ->
                      [Idx(n) -> sampleSet]]}
        : n \in 0..bound})

\* The outcomes of the calls of Acquire that one Process makes, for the
\* sources from s on: the loop stops at the first source that gives none
RECURSIVE AcquireRuns(_, _, _)
AcquireRuns(s, bound, sampleSet) ==
    IF s >= NumSources THEN {<<>>}
    ELSE UNION {
        IF o.ok
        THEN {<<o>> \o rest : rest \in AcquireRuns(s + 1, bound, sampleSet)}
        ELSE {<<o>>}
        : o \in AcquireOutcomes(s, bound, sampleSet)}

----------------------------------------------------------------------------
(* Process *)

\* Clear zeroing the first accumulation buffer only
ClearFirstOnly ==
    [c \in DOMAIN mTemp |->
        IF c = 0 THEN [f \in DOMAIN mTemp[c] |-> 0] ELSE mTemp[c]]

\* Clear leaving the accumulation buffers as they are
ClearNothing == mTemp

\* Mixer::Clear
Clear == [c \in DOMAIN mTemp |-> [f \in DOMAIN mTemp[c] |-> 0]]

\* findChannelFlags without the fold of a right channel into a single output
findChannelFlagsNoFold(map, channel, numChannels) ==
    IF ~map.isNull
    THEN [c \in Idx(numChannels) |-> map.row[c]]
    ELSE CASE channel = "LeftChannel" ->
                [c \in Idx(numChannels) |-> c = 0]
           [] channel = "RightChannel" ->
                [c \in Idx(numChannels) |-> c = 1]
           [] OTHER ->
                [c \in Idx(numChannels) |-> TRUE]

\* findChannelFlags with the map consulted only for mono channels
findChannelFlagsRoleFirst(map, channel, numChannels) ==
    CASE channel = "LeftChannel" ->
            [c \in Idx(numChannels) |-> c = 0]
      [] channel = "RightChannel" ->
            IF numChannels >= 2
            THEN [c \in Idx(numChannels) |-> c = 1]
            ELSE [c \in Idx(numChannels) |-> c = 0]
      [] OTHER ->
            IF ~map.isNull
            THEN [c \in Idx(numChannels) |-> map.row[c]]
            ELSE [c \in Idx(numChannels) |-> TRUE]

\* The lambda findChannelFlags of Mixer::Process
findChannelFlags(map, channel, numChannels) ==
    IF ~map.isNull
    THEN [c \in Idx(numChannels) |-> map.row[c]]
    ELSE CASE channel = "LeftChannel" ->
                [c \in Idx(numChannels) |-> c = 0]
           [] channel = "RightChannel" ->
                IF numChannels >= 2
                THEN [c \in Idx(numChannels) |-> c = 1]
                ELSE [c \in Idx(numChannels) |-> c = 0]
           [] OTHER ->
                [c \in Idx(numChannels) |-> TRUE]

\* MixBuffers adding one frame more than len, the last sample over again
MixBuffersOneTooMany(numChannels, channelFlags, gains, src, dests, len) ==
    [c \in DOMAIN dests |->
        IF c < numChannels /\ channelFlags[c] /\ len > 0
        THEN [j \in DOMAIN dests[c] |->
                IF j < len THEN dests[c][j] + src[j] * gains[c]
                ELSE IF j = len THEN dests[c][j] + src[len - 1] * gains[c]
                ELSE dests[c][j]]
        ELSE dests[c]]

\* MixBuffers storing the scaled samples in place of adding them
MixBuffersOverwrite(numChannels, channelFlags, gains, src, dests, len) ==
    [c \in DOMAIN dests |->
        IF c < numChannels /\ channelFlags[c]
        THEN [j \in DOMAIN dests[c] |->
                IF j < len THEN src[j] * gains[c] ELSE dests[c][j]]
        ELSE dests[c]]

\* MixBuffers adding to every channel, flagged or not
MixBuffersAllChannels(numChannels, channelFlags, gains, src, dests, len) ==
    [c \in DOMAIN dests |->
        IF c < numChannels
        THEN [j \in DOMAIN dests[c] |->
                IF j < len THEN dests[c][j] + src[j] * gains[c]
                ELSE dests[c][j]]
        ELSE dests[c]]

\* MixBuffers stopping after the first flagged channel
MixBuffersFirstOnly(numChannels, channelFlags, gains, src, dests, len) ==
    [c \in DOMAIN dests |->
        IF c < numChannels /\ channelFlags[c]
           /\ \A b \in Idx(c) : ~channelFlags[b]
        THEN [j \in DOMAIN dests[c] |->
                IF j < len THEN dests[c][j] + src[j] * gains[c]
                ELSE dests[c][j]]
        ELSE dests[c]]

\* MixBuffers: dests[c][j] += src[j] * gains[c] for the flagged channels
MixBuffers(numChannels, channelFlags, gains, src, dests, len) ==
    [c \in DOMAIN dests |->
        IF c < numChannels /\ channelFlags[c]
        THEN [j \in DOMAIN dests[c] |->
                IF j < len THEN dests[c][j] + src[j] * gains[c]
                ELSE dests[c][j]]
        ELSE dests[c]]

\* GainsFor taking the gains of the first track for every track
GainsForFirstTrack(track, gainOf) ==
    IF mApplyTrackGains
    THEN [c \in Idx(mNumChannels) |-> gainOf[0][c]]
    ELSE [c \in Idx(mNumChannels) |-> 1]

\* The gains Process passes to MixBuffers for a track
GainsFor(track, gainOf) ==
    IF mApplyTrackGains
    THEN [c \in Idx(mNumChannels) |-> gainOf[track][c]]
    ELSE [c \in Idx(mNumChannels) |-> 1]

\* Whether the loop of Process over the sources left early, an Acquire
\* having given none
AcquireFailed(acq) == Len(acq) > 0 /\ ~acq[Len(acq)].ok

\* The number of leading sources of a run whose Acquire succeeded
NumAcquired(acq) == IF AcquireFailed(acq) THEN Len(acq) - 1 ELSE Len(acq)

\* The calls of MixBuffers made by the loops of Process over the sources and
\* their channels, from source s, channel j on, in the order they are made
RECURSIVE MixCalls(_, _, _, _)
MixCalls(s, j, acq, gainOf) ==
    IF s >= NumAcquired(acq) THEN <<>>
    ELSE IF j >= Min(Channels(s), MaxFloatChannels)
    THEN MixCalls(s + 1, 0, acq, gainOf)
    ELSE LET track == GetChannel(s, j)
         IN  <<[src |-> s, ch |-> j, track |-> track,
                map |-> MixerSpec(s, j),
                flags |-> findChannelFlags(MixerSpec(s, j),
                             inputTracks[track].role, mNumChannels),
                gains |-> GainsFor(track, gainOf),
                data |-> acq[s + 1].data[j],
                len |-> acq[s + 1].n]>>
             \o MixCalls(s, j + 1, acq, gainOf)

\* mTemp after the calls of MixBuffers from the k-th on
RECURSIVE MixAll(_, _, _)
MixAll(mixed, k, dests) ==
    IF k > Len(mixed) THEN dests
    ELSE MixAll(mixed, k + 1,
            MixBuffers(mNumChannels, mixed[k].flags, mixed[k].gains,
                       mixed[k].data, dests, mixed[k].len))

\* MaxOut taking the result of the last Acquire
MaxOutLast(acq, k) ==
    IF NumAcquired(acq) = 0 THEN 0 ELSE acq[NumAcquired(acq)].n

\* MaxOut with the results of Acquire added up
RECURSIVE MaxOutSummed(_, _)
MaxOutSummed(acq, k) ==
    IF k > NumAcquired(acq) THEN 0
    ELSE acq[k].n + MaxOutSummed(acq, k + 1)

\* maxOut: the running std::max over the results of Acquire, from the k-th
RECURSIVE MaxOut(_, _)
MaxOut(acq, k) ==
    IF k > NumAcquired(acq) THEN 0
    ELSE Max(acq[k].n, MaxOut(acq, k + 1))

\* ProcessResult going on to the end of Process when an Acquire gave none
ProcessResultIgnoringNone(acq) == MaxOut(acq, 1)

\* The value Process returns: 0 when an Acquire gave none, else maxOut
ProcessResult(acq) == IF AcquireFailed(acq) THEN 0 ELSE MaxOut(acq, 1)

\* CopySamples from floatSample to the output format, without dither.  A
\* sample v of the model stands for the float v / 2.
ConvertSample(v, format) ==
    IF format = "floatSample" THEN v
    ELSE LET scaled == (v * 32767 + 1) \div 2
         IN  IF scaled > 32767 THEN 32767
             ELSE IF scaled < 0 - 32768 THEN 0 - 32768
             ELSE scaled

\* CopyOut laying the channels one after the other in the interleaved buffer
CopyOutChannelAfterChannel(temp, maxOut) ==
    [b \in DOMAIN mBuffer |->
        [i \in DOMAIN mBuffer[b] |->
            IF mInterleaved
            THEN IF i % mBufferSize < maxOut
                 THEN <<ConvertSample(
                        temp[i \div mBufferSize][i % mBufferSize], mFormat)>>
                 ELSE mBuffer[b][i]
            ELSE IF i < maxOut
                 THEN <<ConvertSample(temp[b][i], mFormat)>>
                 ELSE mBuffer[b][i]]]

\* The loop of CopySamples calls at the end of Process: maxOut frames of each
\* channel, with stride mNumChannels into the one interleaved buffer or with
\* stride 1 into the channel's own buffer
CopyOut(temp, maxOut) ==
    [b \in DOMAIN mBuffer |->
        [i \in DOMAIN mBuffer[b] |->
            IF mInterleaved
            THEN IF i \div mNumChannels < maxOut
                 THEN <<ConvertSample(
                        temp[i % mNumChannels][i \div mNumChannels], mFormat)>>
                 ELSE mBuffer[b][i]
            ELSE IF i < maxOut
                 THEN <<ConvertSample(temp[b][i], mFormat)>>
                 ELSE mBuffer[b][i]]]

AskedLog(acq, bound) ==
    [k \in 1..Len(acq) |->
        [src |-> k - 1, bound |-> bound, ok |-> acq[k].ok, n |-> acq[k].n]]

\* The values the sources' Acquire can leave in mTime of the TimesAndSpeed
\* they share with the mixer, out of the set times: a source that acquires
\* moves mTime in the direction of play, possibly past mT1; one that gives
\* none leaves it alone
AcquireTimes(acq, times) ==
    IF NumAcquired(acq) = 0 THEN {mTimesAndSpeed.mTime}
    ELSE {mTimesAndSpeed.mTime} \cup
         {t \in times :
            IF mTimesAndSpeed.mT0 > mTimesAndSpeed.mT1
            THEN t <= mTimesAndSpeed.mTime
            ELSE t >= mTimesAndSpeed.mTime}

\* Mixer::Process(maxToProcess).  acq: what the sources' Acquire give;
\* gainOf: what GetChannelGain gives for each track; tAcq: the mTime the
\* sources' Acquire leave in the shared TimesAndSpeed.
Process(maxToProcess, acq, gainOf, tAcq) ==
    /\ maxToProcess <= mBufferSize
    /\ LET ts == mTimesAndSpeed
           oldTime == ts.mTime
           backwards == ts.mT0 > ts.mT1
           failed == AcquireFailed(acq)
           mixed == MixCalls(0, 0, acq, gainOf)
           temp == MixAll(mixed, 1, Clear)
           maxOut == MaxOut(acq, 1)
           acqTime == tAcq
       IN  /\ mTemp' = temp
           /\ srcState' = [s \in DOMAIN srcState |->
                             IF s < Len(acq) /\ ~acq[s + 1].ok
                             THEN "Exhausted" ELSE srcState[s]]
           /\ IF failed
              THEN /\ mTimesAndSpeed' = [ts EXCEPT !.mTime = acqTime]
                   /\ mBuffer' = mBuffer
                   /\ call' = [op |-> "Process", args |-> <<maxToProcess>>,
                               ret |-> ProcessResult(acq),
                               asked |-> AskedLog(acq, maxToProcess),
                               mixed |-> mixed, repos |-> <<>>,
                               gainOf |-> gainOf]
              ELSE /\ \E t \in (IF backwards
                                THEN ClampOutcomes(acqTime, ts.mT1, oldTime)
                                ELSE ClampOutcomes(acqTime, oldTime, ts.mT1)) :
                         mTimesAndSpeed' = [ts EXCEPT !.mTime = t]
                   /\ mBuffer' = CopyOut(temp, maxOut)
                   /\ call' = [op |-> "Process", args |-> <<maxToProcess>>,
                               ret |-> ProcessResult(acq),
                               asked |-> AskedLog(acq, maxToProcess),
                               mixed |-> mixed, repos |-> <<>>,
                               gainOf |-> gainOf]
    /\ UNCHANGED config

\* Mixer::GetBuffer(channel): what mBuffer[channel].ptr() refers to.  An
\* index past the end of mBuffer refers to no buffer of the mixer.
GetBuffer(channel) ==
    IF channel \in DOMAIN mBuffer
    THEN [allocated |-> TRUE, slots |-> mBuffer[channel]]
    ELSE [allocated |-> FALSE, slots |-> <<>>]

----------------------------------------------------------------------------
(* Reposition, SetTimesAndSpeed, SetSpeedForKeyboardScrubbing *)

\* RepositionTimes without the clamp into the bounds
RepositionTimesUnclamped(t, mT0, mT1) == {t}

\* The values Mixer::Reposition(t, bSkipping) can leave in mTime, given the
\* bounds mT0 and mT1
RepositionTimes(t, mT0, mT1) ==
    IF mT1 < mT0
    THEN ClampOutcomes(t, mT1, mT0)
    ELSE ClampOutcomes(t, mT0, mT1)

\* RepositionTarget with the argument of Reposition passed on as given
RepositionTargetRaw(t, mTime) == t

\* The time Reposition passes to source.Reposition once mTime is clamped
RepositionTarget(t, mTime) == mTime

\* The loop of Reposition over the sources
ReposLog(t, bSkipping) ==
    [k \in 1..NumSources |-> [src |-> k - 1, t |-> t, bSkipping |-> bSkipping]]

\* The part of Reposition shared by its three callers: ts holds the bounds
\* and the speed the caller has already stored
RepositionIn(ts, t, bSkipping, op, args) ==
    \E mTime \in RepositionTimes(t, ts.mT0, ts.mT1) :
        /\ mTimesAndSpeed' = [ts EXCEPT !.mTime = mTime]
        /\ srcState' = [s \in DOMAIN srcState |-> "Idle"]
        /\ call' = [op |-> op, args |-> args, ret |-> 0, asked |-> <<>>,
                    mixed |-> <<>>,
                    repos |-> ReposLog(RepositionTarget(t, mTime), bSkipping),
                    gainOf |-> <<>>]

\* Mixer::Reposition(t, bSkipping)
Reposition(t, bSkipping) ==
    /\ RepositionIn(mTimesAndSpeed, t, bSkipping, "Reposition",
                    <<t, bSkipping>>)
    /\ UNCHANGED <<config, mTemp, mBuffer>>

\* Mixer::SetTimesAndSpeed(t0, t1, speed, bSkipping)
SetTimesAndSpeed(t0, t1, speed, bSkipping) ==
    /\ RepositionIn([mTimesAndSpeed EXCEPT
                        !.mT0 = t0, !.mT1 = t1, !.mSpeed = fabs(speed)],
                    t0, bSkipping, "SetTimesAndSpeed",
                    <<t0, t1, speed, bSkipping>>)
    /\ UNCHANGED <<config, mTemp, mBuffer>>

\* DirectionChanged for every speed that has a direction
DirectionChangedForAnySpeed(speed, mT0, mT1) == speed # 0

\* Whether SetSpeedForKeyboardScrubbing finds the direction changed
DirectionChanged(speed, mT0, mT1) ==
    (speed > 0 /\ mT1 < mT0) \/ (speed < 0 /\ mT1 > mT0)

\* ScrubBounds with the old bounds swapped
ScrubBoundsSwapped(speed, mT0, mT1) == [mT0 |-> mT1, mT1 |-> mT0]

\* The bounds SetSpeedForKeyboardScrubbing stores when the direction changed
ScrubBounds(speed, mT0, mT1) ==
    IF speed > 0 /\ mT1 < mT0
    THEN [mT0 |-> 0, mT1 |-> DBL_MAX]
    ELSE [mT0 |-> DBL_MAX, mT1 |-> 0]

\* Mixer::SetSpeedForKeyboardScrubbing(speed, startTime)
SetSpeedForKeyboardScrubbing(speed, startTime) ==
    /\ IF DirectionChanged(speed, mTimesAndSpeed.mT0, mTimesAndSpeed.mT1)
       THEN LET b == ScrubBounds(speed, mTimesAndSpeed.mT0, mTimesAndSpeed.mT1)
            IN  RepositionIn([mTimesAndSpeed EXCEPT
                                 !.mT0 = b.mT0, !.mT1 = b.mT1,
                                 !.mSpeed = fabs(speed)],
                             startTime, TRUE, "SetSpeedForKeyboardScrubbing",
                             <<speed, startTime>>)
       ELSE /\ mTimesAndSpeed' = [mTimesAndSpeed EXCEPT !.mSpeed = fabs(speed)]
            /\ call' = [op |-> "SetSpeedForKeyboardScrubbing",
                        args |-> <<speed, startTime>>, ret |-> 0,
                        asked |-> <<>>, mixed |-> <<>>, repos |-> <<>>,
                        gainOf |-> <<>>]
            /\ UNCHANGED srcState
    /\ UNCHANGED <<config, mTemp, mBuffer>>

----------------------------------------------------------------------------
(* Process and a control call on two threads.  Neither takes a lock, so the
   reads and writes of the TimesAndSpeed they share happen in any order; each
   action below is one such read or write.  The sources give silence, so that
   the buffers stay as they are. *)

\* What stays as it is while the two threads run
untimed == <<mNumChannels, mBufferSize, mApplyTrackGains, mInterleaved,
             mFormat, inputTracks, mixerSpec, mSources, ctor, mTemp, mBuffer,
             call, upload>>

\* A call that has started and not yet returned
InProgress(pc) == pc \notin {"idle", "done"}

\* The audio thread takes a step
AudioStep(pc) ==
    [race EXCEPT !.audio = pc,
                 !.first = IF @ = "none" THEN "audio" ELSE @,
                 !.overlapped = @ \/ InProgress(race.control)]

\* The control thread takes a step
ControlStep(pc) ==
    [race EXCEPT !.control = pc,
                 !.first = IF @ = "none" THEN "control" ELSE @,
                 !.overlapped = @ \/ InProgress(race.audio)]

\* The clamp at the end of Process left out
ProcessClampOutcomesUnclamped(v, oldTime, hi, backwards) == {v}

\* backwards ? std::clamp(mTime, mT1, oldTime) : std::clamp(mTime, oldTime, mT1)
ProcessClampOutcomes(v, oldTime, hi, backwards) ==
    IF backwards THEN ClampOutcomes(v, hi, oldTime)
    ELSE ClampOutcomes(v, oldTime, hi)

\* Process: auto oldTime = mTime;
ProcessOldTimeStep ==
    /\ race.audio = "idle"
    /\ race' = [AudioStep("readT0") EXCEPT !.oldTime = mTimesAndSpeed.mTime]
    /\ UNCHANGED <<untimed, mTimesAndSpeed, srcState>>

\* Process: backwards = (mT0 > mT1), the read of mT0
ProcessReadT0Step ==
    /\ race.audio = "readT0"
    /\ race' = [AudioStep("readT1") EXCEPT !.t0 = mTimesAndSpeed.mT0]
    /\ UNCHANGED <<untimed, mTimesAndSpeed, srcState>>

\* Process: backwards = (mT0 > mT1), the read of mT1
ProcessReadT1Step ==
    /\ race.audio = "readT1"
    /\ race' = [AudioStep("acquire") EXCEPT
                  !.backwards = race.t0 > mTimesAndSpeed.mT1, !.next = 0]
    /\ UNCHANGED <<untimed, mTimesAndSpeed, srcState>>

\* Process: source.Acquire of the next source, which gives frames and leaves
\* mTime at one of times
ProcessAcquireStep(times) ==
    /\ race.audio = "acquire"
    /\ race.next < NumSources
    /\ srcState[race.next] # "Exhausted"
    /\ \E t \in AcquireTimes(<<[ok |-> TRUE, n |-> 0, data |-> <<>>]>>, times) :
          mTimesAndSpeed' = [mTimesAndSpeed EXCEPT !.mTime = t]
    /\ race' = [AudioStep("acquire") EXCEPT !.next = race.next + 1]
    /\ UNCHANGED <<untimed, srcState>>

\* Process: source.Acquire of the next source gives none; return 0
ProcessAcquireNoneStep ==
    /\ race.audio = "acquire"
    /\ race.next < NumSources
    /\ srcState' = [srcState EXCEPT ![race.next] = "Exhausted"]
    /\ race' = [AudioStep("done") EXCEPT !.ret = "none"]
    /\ UNCHANGED <<untimed, mTimesAndSpeed>>

\* Process: the reads of mTime and mT1 for the final clamp
ProcessClampReadStep ==
    /\ race.audio = "acquire"
    /\ race.next >= NumSources
    /\ race' = [AudioStep("clampWrite") EXCEPT !.v = mTimesAndSpeed.mTime,
                                              !.hi = mTimesAndSpeed.mT1]
    /\ UNCHANGED <<untimed, mTimesAndSpeed, srcState>>

\* Process: the assignment of the clamped value to mTime, and the return
ProcessClampWriteStep ==
    /\ race.audio = "clampWrite"
    /\ \E t \in ProcessClampOutcomes(race.v, race.oldTime, race.hi,
                                     race.backwards) :
          mTimesAndSpeed' = [mTimesAndSpeed EXCEPT !.mTime = t]
    /\ race' = [AudioStep("done") EXCEPT !.ret = "frames"]
    /\ UNCHANGED <<untimed, srcState>>

\* Reposition(t, bSkipping) called: mTime = t;
RepositionCallStep(t) ==
    /\ race.control = "idle"
    /\ mTimesAndSpeed' = [mTimesAndSpeed EXCEPT !.mTime = t]
    /\ race' = [ControlStep("readDirection") EXCEPT
                  !.op = "Reposition", !.args = <<t>>, !.t = t]
    /\ UNCHANGED <<untimed, srcState>>

\* SetTimesAndSpeed(t0, t1, speed, bSkipping) called: mT0 = t0;
SetTimesAndSpeedCallStep(t0, t1, speed) ==
    /\ race.control = "idle"
    /\ mTimesAndSpeed' = [mTimesAndSpeed EXCEPT !.mT0 = t0]
    /\ race' = [ControlStep("setT1") EXCEPT
                  !.op = "SetTimesAndSpeed", !.args = <<t0, t1, speed>>,
                  !.t = t0]
    /\ UNCHANGED <<untimed, srcState>>

\* SetTimesAndSpeed: mT1 = t1;
SetTimesAndSpeedT1Step ==
    /\ race.control = "setT1"
    /\ mTimesAndSpeed' = [mTimesAndSpeed EXCEPT !.mT1 = race.args[2]]
    /\ race' = ControlStep("setSpeed")
    /\ UNCHANGED <<untimed, srcState>>

\* SetTimesAndSpeed: mSpeed = fabs(speed);
SetTimesAndSpeedSpeedStep ==
    /\ race.control = "setSpeed"
    /\ mTimesAndSpeed' = [mTimesAndSpeed EXCEPT !.mSpeed = fabs(race.args[3])]
    /\ race' = ControlStep("setTime")
    /\ UNCHANGED <<untimed, srcState>>

\* SetTimesAndSpeed: Reposition(t0, bSkipping), whose first statement is
\* mTime = t;
RepositionSetTimeStep ==
    /\ race.control = "setTime"
    /\ mTimesAndSpeed' = [mTimesAndSpeed EXCEPT !.mTime = race.t]
    /\ race' = ControlStep("readDirection")
    /\ UNCHANGED <<untimed, srcState>>

\* Reposition: const bool backwards = (mT1 < mT0);
RepositionDirectionStep ==
    /\ race.control = "readDirection"
    /\ race' = [ControlStep("clampRead") EXCEPT
                  !.cBackwards = mTimesAndSpeed.mT1 < mTimesAndSpeed.mT0]
    /\ UNCHANGED <<untimed, mTimesAndSpeed, srcState>>

\* Reposition: the reads of mTime, mT0 and mT1 for the clamp
RepositionClampReadStep ==
    /\ race.control = "clampRead"
    /\ race' = [ControlStep("clampWrite") EXCEPT
                  !.cV = mTimesAndSpeed.mTime,
                  !.cLo = IF race.cBackwards THEN mTimesAndSpeed.mT1
                          ELSE mTimesAndSpeed.mT0,
                  !.cHi = IF race.cBackwards THEN mTimesAndSpeed.mT0
                          ELSE mTimesAndSpeed.mT1]
    /\ UNCHANGED <<untimed, mTimesAndSpeed, srcState>>

\* Reposition: the assignment of the clamped value to mTime
RepositionClampWriteStep ==
    /\ race.control = "clampWrite"
    /\ \E t \in ClampOutcomes(race.cV, race.cLo, race.cHi) :
          mTimesAndSpeed' = [mTimesAndSpeed EXCEPT !.mTime = t]
    /\ race' = ControlStep("sources")
    /\ UNCHANGED <<untimed, srcState>>

\* Reposition: the loop of source.Reposition(mTime, bSkipping), and the return
RepositionSourcesStep ==
    /\ race.control = "sources"
    /\ srcState' = [s \in DOMAIN srcState |-> "Idle"]
    /\ race' = ControlStep("done")
    /\ UNCHANGED <<untimed, mTimesAndSpeed>>

----------------------------------------------------------------------------
(* DataUploader: every upload is a Response in mResponses, which sends the
   PUT, then the confirming or the failing POST, and acts on how each request
   finishes.  The operators below take and give u = [r, l]: the Response r and
   what has been seen of this upload so far, l (its requests of each kind and
   the calls of the caller's Callback). *)

\* DataUploader::Response::RetriesCount
RetriesCount == 3

\* What has been seen of an upload that has done nothing yet
NewLog ==
    [callbacks |-> 0, result |-> "none", PUT |-> 0, CONFIRM |-> 0, FAIL |-> 0,
     removed |-> FALSE]

\* The members of a Response as its constructor sets them
NewResponse(id, data) ==
    [id |-> id, Data |-> data, RetriesLeft |-> RetriesCount,
     UploadFailed |-> FALSE, CurrentResult |-> "none", request |-> "none",
     cleanUp |-> FALSE]

\* A request of the given kind is sent; its finished callback is awaited
Attempt(u, kind) == [u EXCEPT !.r.request = kind, !.l[kind] = @ + 1]

\* Callback(result)
Callback(u, result) ==
    [u EXCEPT !.l.callbacks = @ + 1, !.l.result = result]

\* Response::PerformUpload
PerformUpload(u) == Attempt(u, "PUT")

\* Response::ConfirmUpload
ConfirmUpload(u) == Attempt([u EXCEPT !.r.Data = "empty"], "CONFIRM")

\* FailCallbackDue without the flag UploadFailed
FailCallbackAlways(r) == TRUE

\* if (!UploadFailed.exchange(true))
FailCallbackDue(r) == ~r.UploadFailed

\* Response::FailUpload
FailUpload(u) ==
    Attempt(IF FailCallbackDue(u.r)
            THEN Callback([u EXCEPT !.r.UploadFailed = TRUE,
                                    !.r.Data = "empty"],
                          u.r.CurrentResult)
            ELSE [u EXCEPT !.r.UploadFailed = TRUE],
            "FAIL")

\* Response::CleanUp: the removal is posted with BasicUI::CallAfter
CleanUp(u) == [u EXCEPT !.r.request = "none", !.r.cleanUp = TRUE]

\* Response::OnUploadSucceeded
OnUploadSucceeded(u) ==
    ConfirmUpload([u EXCEPT !.r.RetriesLeft = RetriesCount])

\* Response::OnUploadFailed, code being what GetResponseResult gives
OnUploadFailed(u, code) ==
    IF code = "ConnectionFailed" /\ u.r.RetriesLeft - 1 > 0
    THEN PerformUpload([u EXCEPT !.r.CurrentResult = code,
                                 !.r.RetriesLeft = @ - 1])
    ELSE FailUpload([u EXCEPT !.r.CurrentResult = code,
                              !.r.RetriesLeft = RetriesCount])

\* The finished callback of the PUT request
PutFinished(u, noError, code) ==
    IF noError THEN OnUploadSucceeded(u) ELSE OnUploadFailed(u, code)

\* The finished callback of the confirming POST request
ConfirmFinished(u, code) ==
    IF code = "Success"
    THEN CleanUp(Callback([u EXCEPT !.r.CurrentResult = code], "Success"))
    ELSE IF code = "ConnectionFailed" /\ u.r.RetriesLeft - 1 > 0
    THEN ConfirmUpload([u EXCEPT !.r.CurrentResult = code,
                                 !.r.RetriesLeft = @ - 1])
    ELSE FailUpload([u EXCEPT !.r.CurrentResult = code,
                              !.r.RetriesLeft = RetriesCount])

\* The finished callback of the failing POST request
FailFinished(u, code) ==
    IF code = "ConnectionFailed" /\ u.r.RetriesLeft - 1 > 0
    THEN FailUpload([u EXCEPT !.r.RetriesLeft = @ - 1])
    ELSE CleanUp([u EXCEPT !.r.RetriesLeft =
                     IF code = "ConnectionFailed" THEN @ - 1 ELSE @])

\* The mixer, which the uploader leaves alone
mixer == <<mNumChannels, mBufferSize, mApplyTrackGains, mInterleaved, mFormat,
           inputTracks, mixerSpec, mSources, mTimesAndSpeed, mTemp, mBuffer,
           srcState, call, ctor, race>>

\* mResponses.emplace_back(std::make_unique<Response>(...)), the constructor
\* of Response calling PerformUpload
StartUpload(data) ==
    LET id == upload.started + 1
        u == PerformUpload([r |-> NewResponse(id, data), l |-> NewLog])
    IN  upload' = [mResponses |-> Append(upload.mResponses, u.r),
                   started |-> id,
                   log |-> Append(upload.log, u.l)]

\* DataUploader::Upload(..., std::vector<uint8_t> data, ...)
UploadData ==
    /\ upload.started < MaxUploads
    /\ StartUpload("bytes")
    /\ UNCHANGED mixer

\* DataUploader::Upload(..., std::string filePath, ...)
UploadFile(fileExists) ==
    /\ upload.started < MaxUploads
    /\ IF fileExists
       THEN StartUpload("path")
       ELSE upload' = [upload EXCEPT
                         !.started = @ + 1,
                         !.log = Append(@, [NewLog EXCEPT
                                              !.callbacks = 1,
                                              !.result = "UnknownError"])]
    /\ UNCHANGED mixer

\* The Response at position k of mResponses, after step has acted on it
Respond(k, u) ==
    upload' = [upload EXCEPT !.mResponses[k] = u.r, !.log[u.r.id] = u.l]

\* The Response at position k with what has been seen of its upload
Under(k) ==
    [r |-> upload.mResponses[k], l |-> upload.log[upload.mResponses[k].id]]

\* The network finishes the PUT request of the Response at position k
PutResponse(k, noError, code) ==
    /\ k \in 1..Len(upload.mResponses)
    /\ upload.mResponses[k].request = "PUT"
    /\ Respond(k, PutFinished(Under(k), noError, code))
    /\ UNCHANGED mixer

\* The network finishes the confirming POST of the Response at position k
ConfirmResponse(k, code) ==
    /\ k \in 1..Len(upload.mResponses)
    /\ upload.mResponses[k].request = "CONFIRM"
    /\ Respond(k, ConfirmFinished(Under(k), code))
    /\ UNCHANGED mixer

\* The network finishes the failing POST of the Response at position k
FailResponse(k, code) ==
    /\ k \in 1..Len(upload.mResponses)
    /\ upload.mResponses[k].request = "FAIL"
    /\ Respond(k, FailFinished(Under(k), code))
    /\ UNCHANGED mixer

\* DataUploader::RemoveResponse, called after CleanUp
RemoveResponse(k) ==
    /\ k \in 1..Len(upload.mResponses)
    /\ upload.mResponses[k].cleanUp
    /\ upload' = [upload EXCEPT
                    !.mResponses = SubSeq(@, 1, k - 1)
                                   \o SubSeq(@, k + 1, Len(@)),
                    !.log[upload.mResponses[k].id].removed = TRUE]
    /\ UNCHANGED mixer

----------------------------------------------------------------------------
(* The inputs the specifications draw from *)

Roles == {"MonoChannel", "LeftChannel", "RightChannel", "OtherChannel"}

Formats == {"floatSample", "int16Sample"}

Samples == {0, 1}

Gains == {1, 2}

Speeds == {0 - 2, 0, 1}

\* Playback bounds given by callers
Times == 0..MaxTime

\* Times asked of Reposition and SetSpeedForKeyboardScrubbing, and times the
\* sources' Acquire can leave in mTime: also before 0 and past MaxTime
AnyTimes == (0 - 1)..(MaxTime + 1)

\* An input track: a leader of a group of nChannels tracks, or a follower
Track(role, nChannels) ==
    [isNull |-> FALSE, nChannels |-> nChannels, role |-> role]

\* The lists of at most two input tracks: none, one track of any role, and
\* two tracks, a first of any role and a mono or right second, as two
\* groups of one track (n = 1) or one group of two (n = 2)
TrackLists ==
    {ZeroBased(<<>>)}
    \cup {ZeroBased(<<Track(r, 1)>>) : r \in Roles}
    \cup {ZeroBased(<<Track(r, n), Track(q, 1)>>) :
            r \in Roles, q \in {"MonoChannel", "RightChannel"}, n \in {1, 2}}

\* The mixer specifications of numChannels output channels and numTracks
\* tracks
MixerSpecsOf(numChannels, numTracks) ==
    {[present |-> TRUE, numChannels |-> numChannels, numTracks |-> numTracks,
      mMap |-> m] :
        m \in [Idx(numTracks) -> [Idx(numChannels) -> BOOLEAN]]}

\* The mixer specification whose map has the same flag everywhere
ConstantMixerSpec(numChannels, numTracks, flag) ==
    [present |-> TRUE, numChannels |-> numChannels, numTracks |-> numTracks,
     mMap |-> [t \in Idx(numTracks) |-> [c \in Idx(numChannels) |-> flag]]]

\* The mixer specifications given to a mixer of numOutChannels output
\* channels and nTracks input tracks: none, every one of matching dimensions
\* (for at most two output channels), and ones of constant map with the
\* same dimensions or one of them off by one
MixerSpecs(numOutChannels, nTracks) ==
    {NoMixerSpec}
    \cup (IF numOutChannels <= 2
          THEN MixerSpecsOf(numOutChannels, nTracks) ELSE {})
    \cup {ConstantMixerSpec(numOutChannels + d[1], nTracks + d[2], flag) :
            d \in {<<0, 0>>, <<1, 0>>, <<0, 1>>}, flag \in BOOLEAN}

\* What GetChannelGain gives, for each track and output channel
GainTables ==
    IF mApplyTrackGains
    THEN [DOMAIN inputTracks -> [Idx(mNumChannels) -> Gains]]
    ELSE {[t \in DOMAIN inputTracks |-> [c \in Idx(mNumChannels) |-> 1]]}

----------------------------------------------------------------------------
(* Spec: the calls of a mixer of two output channels, in any order *)

Init ==
    \E tracks \in {ZeroBased(<<>>),
                   ZeroBased(<<Track("MonoChannel", 1)>>),
                   ZeroBased(<<Track("MonoChannel", 1),
                               Track("MonoChannel", 1)>>)},
       startTime \in Times, stopTime \in Times :
        Mixer(tracks, startTime, stopTime, 1, 2, MaxFrames, TRUE,
              "floatSample", NoMixerSpec, FALSE)

DoProcess ==
    \E maxToProcess \in 0..mBufferSize :
        \E acq \in AcquireRuns(0, maxToProcess, {0}), gainOf \in GainTables :
            \E tAcq \in AcquireTimes(acq, AnyTimes) :
                Process(maxToProcess, acq, gainOf, tAcq)

DoReposition ==
    \E t \in AnyTimes, bSkipping \in BOOLEAN : Reposition(t, bSkipping)

DoSetTimesAndSpeed ==
    \E t0 \in Times, t1 \in Times, speed \in Speeds, bSkipping \in BOOLEAN :
        SetTimesAndSpeed(t0, t1, speed, bSkipping)

DoSetSpeedForKeyboardScrubbing ==
    \E speed \in Speeds, startTime \in AnyTimes :
        SetSpeedForKeyboardScrubbing(speed, startTime)

Next ==
    \/ DoProcess
    \/ DoReposition
    \/ DoSetTimesAndSpeed
    \/ DoSetSpeedForKeyboardScrubbing

Spec == Init /\ [][Next]_vars

----------------------------------------------------------------------------
(* SpecTime: the calls of Spec, Process being of a whole block with sources *)
(* that leave any time at all in mTime                                      *)

ProcessAnyTime ==
    \E maxToProcess \in {mBufferSize} :
        \E acq \in AcquireRuns(0, maxToProcess, {0}), gainOf \in GainTables :
            \E tAcq \in (IF NumAcquired(acq) = 0 THEN {mTimesAndSpeed.mTime}
                         ELSE AnyTimes) :
                Process(maxToProcess, acq, gainOf, tAcq)

NextTime ==
    \/ ProcessAnyTime
    \/ DoReposition
    \/ DoSetTimesAndSpeed
    \/ DoSetSpeedForKeyboardScrubbing

SpecTime == Init /\ [][NextTime]_vars

----------------------------------------------------------------------------
(* SpecRoute: Process on mixers of every routing, the sources giving       *)
(* blocks of one sample value                                              *)

InitRoute ==
    \E tracks \in TrackLists, numOutChannels \in 1..3 :
      \E spec \in MixerSpecs(numOutChannels, Cardinality(DOMAIN tracks)) :
        Mixer(tracks, 0, MaxTime, 1, numOutChannels, MaxFrames, FALSE,
              "floatSample", spec, FALSE)

ProcessRoute ==
    \E maxToProcess \in {mBufferSize} :
        \E acq \in AcquireRuns(0, maxToProcess, {1}),
           gainOf \in GainTables :
            \E tAcq \in AcquireTimes(acq, {}) :
                Process(maxToProcess, acq, gainOf, tAcq)

NextRoute == ProcessRoute

SpecRoute == InitRoute /\ [][NextRoute]_vars

----------------------------------------------------------------------------
(* SpecData: Process of a whole block on mixers of two output channels,    *)
(* the sources giving blocks of any samples                                *)

\* The mixer specification of two tracks and two output channels that sends
\* track t to output channel t alone
OneToOneMixerSpec ==
    [present |-> TRUE, numChannels |-> 2, numTracks |-> 2,
     mMap |-> [t \in Idx(2) |-> [c \in Idx(2) |-> c = t]]]

\* One mono track, two mono tracks without and with a mixer specification,
\* and a stereo pair
InitData ==
    \E cfg \in {<<ZeroBased(<<Track("MonoChannel", 1)>>), NoMixerSpec>>,
                <<ZeroBased(<<Track("MonoChannel", 1),
                              Track("MonoChannel", 1)>>), NoMixerSpec>>,
                <<ZeroBased(<<Track("MonoChannel", 1),
                              Track("MonoChannel", 1)>>), OneToOneMixerSpec>>,
                <<ZeroBased(<<Track("LeftChannel", 2),
                              Track("RightChannel", 1)>>), NoMixerSpec>>} :
        Mixer(cfg[1], 0, MaxTime, 1, 2, MaxFrames, FALSE,
              "floatSample", cfg[2], FALSE)

ProcessData ==
    \E maxToProcess \in {mBufferSize} :
        \E acq \in AcquireRuns(0, maxToProcess, Samples),
           gainOf \in GainTables :
            \E tAcq \in AcquireTimes(acq, {}) :
                Process(maxToProcess, acq, gainOf, tAcq)

NextData == ProcessData

SpecData == InitData /\ [][NextData]_vars

----------------------------------------------------------------------------
(* SpecGain: Process of a whole block on mixers that apply the track gains  *)
(* or not, the sources giving blocks of ones or blocks of zeros             *)

\* What GetChannelGain gives for each track and output channel, the tracks
\* having gains whether the mixer applies them or not: a table whose gains
\* all differ, and one with zero and negative gains
TrackGainTables ==
    {[t \in DOMAIN inputTracks |->
        [c \in Idx(mNumChannels) |-> 2 + t * mNumChannels + c]],
     [t \in DOMAIN inputTracks |-> [c \in Idx(mNumChannels) |-> c - t]]}

InitGain ==
    \E cfg \in {<<ZeroBased(<<Track("MonoChannel", 1)>>), NoMixerSpec>>,
                <<ZeroBased(<<Track("MonoChannel", 1),
                              Track("MonoChannel", 1)>>), NoMixerSpec>>,
                <<ZeroBased(<<Track("MonoChannel", 1),
                              Track("MonoChannel", 1)>>), OneToOneMixerSpec>>,
                <<ZeroBased(<<Track("LeftChannel", 2),
                              Track("RightChannel", 1)>>), NoMixerSpec>>},
       outFormat \in Formats, applyTrackGains \in BOOLEAN :
        Mixer(cfg[1], 0, MaxTime, 1, 2, MaxFrames, FALSE,
              outFormat, cfg[2], applyTrackGains)

ProcessGain ==
    \E maxToProcess \in {mBufferSize}, sampleSet \in {{0}, {1}} :
        \E acq \in AcquireRuns(0, maxToProcess, sampleSet),
           gainOf \in TrackGainTables :
            \E tAcq \in AcquireTimes(acq, {}) :
                Process(maxToProcess, acq, gainOf, tAcq)

NextGain == ProcessGain

SpecGain == InitGain /\ [][NextGain]_vars

----------------------------------------------------------------------------
(* SpecBuild: mixers built from track lists of every shape, also ones with  *)
(* a null leader or a group that runs past the end, and Process on them     *)

\* A null pointer in inputTracks; the constructor does not look at the size
\* of its group
NullTrack == [isNull |-> TRUE, role |-> "MonoChannel", nChannels |-> 1]

\* The lists of up to three tracks, each null or the leader of a group of
\* one, two or three channels
BuildTrackLists ==
    LET Entry == {NullTrack, Track("MonoChannel", 1), Track("LeftChannel", 2),
                  Track("OtherChannel", 3)}
    IN  UNION {{ZeroBased(q) : q \in [1..n -> Entry]} : n \in 0..3}

\* A mixer specification of the given dimensions whose rows differ
RowMixerSpec(numChannels, numTracks) ==
    [present |-> TRUE, numChannels |-> numChannels, numTracks |-> numTracks,
     mMap |-> [t \in Idx(numTracks) |->
                 [c \in Idx(numChannels) |-> (t + c) % 3 # 0]]]

\* Gains that differ for every track and output channel
DistinctGainTable ==
    [t \in DOMAIN inputTracks |->
        [c \in Idx(mNumChannels) |-> 2 + t * mNumChannels + c]]

InitBuild ==
    \E tracks \in BuildTrackLists, numOutChannels \in {1, 3} :
      \E spec \in {NoMixerSpec,
                   RowMixerSpec(numOutChannels, Cardinality(DOMAIN tracks))} :
        Mixer(tracks, 0, MaxTime, 1, numOutChannels, MaxFrames, FALSE,
              "floatSample", spec, TRUE)

ProcessBuild ==
    \E maxToProcess \in {mBufferSize} :
        \E acq \in AcquireRuns(0, maxToProcess, {1}),
           gainOf \in {DistinctGainTable} :
            \E tAcq \in AcquireTimes(acq, {}) :
                Process(maxToProcess, acq, gainOf, tAcq)

NextBuild == ProcessBuild

SpecBuild == InitBuild /\ [][NextBuild]_vars

----------------------------------------------------------------------------
(* SpecOut: Process of a whole block on mixers of either output layout and  *)
(* format, with two mono sources                                           *)

InitOut ==
    \E cfg \in {<<1, NoMixerSpec>>, <<2, NoMixerSpec>>,
                <<2, OneToOneMixerSpec>>},
       outInterleaved \in BOOLEAN, outFormat \in Formats :
        Mixer(ZeroBased(<<Track("MonoChannel", 1), Track("MonoChannel", 1)>>),
              0, MaxTime, 1, cfg[1], MaxFrames, outInterleaved, outFormat,
              cfg[2], FALSE)

ProcessOut ==
    \E maxToProcess \in {mBufferSize} :
        \E acq \in AcquireRuns(0, maxToProcess, {1}),
           gainOf \in GainTables :
            \E tAcq \in AcquireTimes(acq, {}) :
                Process(maxToProcess, acq, gainOf, tAcq)

NextOut == ProcessOut

SpecOut == InitOut /\ [][NextOut]_vars

\* The constructor's loop followed one iteration at a time, over lists of up
\* to three tracks: null, or the leader of a channel group of size 0, 1 or 2
EmptyGroupTrack == [isNull |-> FALSE, role |-> "MonoChannel", nChannels |-> 0]

CtorTrackLists ==
    LET Entry == {NullTrack, EmptyGroupTrack, Track("MonoChannel", 1),
                  Track("LeftChannel", 2)}
    IN  UNION {{ZeroBased(q) : q \in [1..n -> Entry]} : n \in 0..3}

InitCtor ==
    \E tracks \in CtorTrackLists, numOutChannels \in 0..2 :
      \E spec \in {NoMixerSpec,
                   RowMixerSpec(numOutChannels, Cardinality(DOMAIN tracks))} :
        MixerBody(tracks, 0, MaxTime, 1, numOutChannels, MaxFrames, FALSE,
                  "floatSample", spec, TRUE)

NextCtor ==
    \/ MixerLoopEmplace
    \/ MixerLoopBreak
    \/ MixerLoopEnd

SpecCtor == InitCtor /\ [][NextCtor]_vars

\* One Process on the audio thread and one Reposition or SetTimesAndSpeed on
\* a control thread, their statements in any order, on a mixer of one or two
\* mono sources
InitRace ==
    \E tracks \in {ZeroBased(<<Track("MonoChannel", 1)>>),
                   ZeroBased(<<Track("MonoChannel", 1),
                               Track("MonoChannel", 1)>>)},
       startTime \in Times, stopTime \in Times :
        Mixer(tracks, startTime, stopTime, 1, 2, MaxFrames, TRUE,
              "floatSample", NoMixerSpec, FALSE)

NextRace ==
    \/ ProcessOldTimeStep
    \/ ProcessReadT0Step
    \/ ProcessReadT1Step
    \/ ProcessAcquireStep(AnyTimes)
    \/ ProcessAcquireNoneStep
    \/ ProcessClampReadStep
    \/ ProcessClampWriteStep
    \/ \E t \in AnyTimes : RepositionCallStep(t)
    \/ \E t0 \in Times, t1 \in Times, speed \in Speeds :
          SetTimesAndSpeedCallStep(t0, t1, speed)
    \/ SetTimesAndSpeedT1Step
    \/ SetTimesAndSpeedSpeedStep
    \/ RepositionSetTimeStep
    \/ RepositionDirectionStep
    \/ RepositionClampReadStep
    \/ RepositionClampWriteStep
    \/ RepositionSourcesStep

SpecRace == InitRace /\ [][NextRace]_vars

\* The result codes GetResponseResult gives for a request that has finished
ResultCodes == {"Success", "ConnectionFailed", "UnknownError"}

\* Uploads started on the uploader, and their requests finishing in any order
InitUpload ==
    Mixer(ZeroBased(<<>>), 0, MaxTime, 1, 2, MaxFrames, TRUE, "floatSample",
          NoMixerSpec, FALSE)

NextUpload ==
    \/ UploadData
    \/ \E fileExists \in BOOLEAN : UploadFile(fileExists)
    \/ \E k \in 1..MaxUploads, code \in ResultCodes \ {"Success"} :
          \E noError \in BOOLEAN : PutResponse(k, noError, code)
    \/ \E k \in 1..MaxUploads, code \in ResultCodes : ConfirmResponse(k, code)
    \/ \E k \in 1..MaxUploads, code \in ResultCodes : FailResponse(k, code)
    \/ \E k \in 1..MaxUploads : RemoveResponse(k)

SpecUpload == InitUpload /\ [][NextUpload]_vars

----------------------------------------------------------------------------
(* Properties *)

InBounds(t) ==
    /\ Min(mTimesAndSpeed.mT0, mTimesAndSpeed.mT1) <= t
    /\ t <= Max(mTimesAndSpeed.mT0, mTimesAndSpeed.mT1)

\* The default routing policy: whether a channel of the given role goes to
\* output channel c of numOutChannels
PolicyFlag(role, c, numOutChannels) ==
    CASE role = "LeftChannel" -> c = 0
      [] role = "RightChannel" -> IF numOutChannels >= 2 THEN c = 1 ELSE c = 0
      [] OTHER -> TRUE

\* C1: Process(maxFrames) with maxFrames <= blockSize, each Acquire giving
\* none or at most maxFrames, returns at most maxFrames, after any sequence
\* of calls.
C1_ProcessReturnsAtMostMaxFrames ==
    call.op = "Process" => call.ret <= call.args[1]

C1_Witness ==
    /\ call.op = "Process"
    /\ Len(call.asked) = 2
    /\ call.asked[1].ok /\ call.asked[1].n = 1
    /\ call.asked[2].ok /\ call.asked[2].n = call.args[1]
    /\ call.args[1] = mBufferSize
    /\ call.ret = call.args[1]

\* C2: Process returns 0 whenever the Acquire of a source gives none; the
\* sources are asked in input order, each at most once, all of them unless
\* one gives none, and none after the one that gives none.
C2_NoneAbortsProcess ==
    call.op = "Process" =>
        /\ (\E k \in 1..Len(call.asked) : ~call.asked[k].ok) => call.ret = 0
        /\ Len(call.asked) <= NumSources
        /\ \A k \in 1..Len(call.asked) :
            /\ call.asked[k].src = k - 1
            /\ ~call.asked[k].ok => k = Len(call.asked)
        /\ (\A k \in 1..Len(call.asked) : call.asked[k].ok)
              => Len(call.asked) = NumSources

C2_Witness ==
    /\ call.op = "Process"
    /\ NumSources = 2
    /\ Len(call.asked) = 2
    /\ call.asked[1].ok /\ call.asked[1].n > 0
    /\ ~call.asked[2].ok
    /\ call.ret = 0

\* C3: after every Process call, also one that returns 0 because a later
\* source gave none, currentTime lies within [min(t0,t1), max(t0,t1)].
C3_TimeWithinBoundsAfterProcess ==
    call.op = "Process" => InBounds(mTimesAndSpeed.mTime)

\* C4: a source channel with no explicit map is routed by the default
\* policy: Mono to all outputs, Left to output 0, Right to output 1 or, with
\* a single output, to output 0; any other role as Mono.
C4_DefaultRouting ==
    call.op = "Process" =>
        \A k \in 1..Len(call.mixed) :
            LET m == call.mixed[k]
            IN  ~mSources[m.src].hasMap =>
                    /\ DOMAIN m.flags = Idx(mNumChannels)
                    /\ \A c \in Idx(mNumChannels) :
                          m.flags[c] = PolicyFlag(inputTracks[m.track].role,
                                                  c, mNumChannels)

C4_Witness ==
    /\ call.op = "Process"
    /\ mNumChannels = 1
    /\ \E k \in 1..Len(call.mixed) :
          /\ ~mSources[call.mixed[k].src].hasMap
          /\ inputTracks[call.mixed[k].track].role = "RightChannel"
          /\ call.mixed[k].flags[0]

\* C5: a source channel with an explicit map is routed by the entries of
\* its map, whatever its role.
C5_ExplicitMapVerbatim ==
    call.op = "Process" =>
        \A k \in 1..Len(call.mixed) :
            LET m == call.mixed[k]
            IN  mSources[m.src].hasMap =>
                    /\ DOMAIN m.flags = Idx(mNumChannels)
                    /\ \A c \in Idx(mNumChannels) :
                          m.flags[c] = mixerSpec.mMap[m.track][c]

C5_Witness ==
    /\ call.op = "Process"
    /\ mNumChannels = 2
    /\ \E k \in 1..Len(call.mixed) :
          /\ mSources[call.mixed[k].src].hasMap
          /\ inputTracks[call.mixed[k].track].role = "LeftChannel"
          /\ ~call.mixed[k].flags[0]
          /\ call.mixed[k].flags[1]

MixerSpecMismatched ==
    /\ mixerSpec.present
    /\ \/ mixerSpec.numChannels # mNumChannels
       \/ mixerSpec.numTracks # Cardinality(DOMAIN inputTracks)

\* C6: with a mixer specification whose channel count or track count does
\* not match, the mixer is still constructed, with a source for every input
\* track and no map in any source, and Process routes every channel by the
\* default policy.
C6_MismatchedSpecIgnored ==
    MixerSpecMismatched =>
        /\ \A t \in DOMAIN inputTracks :
              \E s \in DOMAIN mSources :
                  /\ mSources[s].leader <= t
                  /\ t < mSources[s].leader + mSources[s].nChannels
        /\ \A s \in DOMAIN mSources : ~mSources[s].hasMap
        /\ \A k \in 1..Len(call.mixed) :
              \A c \in Idx(mNumChannels) :
                  call.mixed[k].flags[c]
                      = PolicyFlag(inputTracks[call.mixed[k].track].role,
                                   c, mNumChannels)

C6_Witness ==
    /\ MixerSpecMismatched
    /\ mixerSpec.numChannels = mNumChannels
    /\ \A t \in Idx(mixerSpec.numTracks) :
          \A c \in Idx(mixerSpec.numChannels) : ~mixerSpec.mMap[t][c]
    /\ call.op = "Process"
    /\ Len(call.mixed) = 2
    /\ \A c \in Idx(mNumChannels) : call.mixed[1].flags[c]

\* C7: Reposition(time, isScrubbing) leaves currentTime at time clamped
\* into [min(t0,t1), max(t0,t1)], leaves t0, t1 and speed as they were, and
\* repositions every source once, to the clamped time.
C7_Reposition ==
    [][call'.op = "Reposition" =>
        LET ts == mTimesAndSpeed
            lo == Min(ts.mT0, ts.mT1)
            hi == Max(ts.mT0, ts.mT1)
            t == call'.args[1]
            clamped == IF t < lo THEN lo ELSE IF t > hi THEN hi ELSE t
        IN  /\ mTimesAndSpeed'.mTime = clamped
            /\ mTimesAndSpeed'.mT0 = ts.mT0
            /\ mTimesAndSpeed'.mT1 = ts.mT1
            /\ mTimesAndSpeed'.mSpeed = ts.mSpeed
            /\ Len(call'.repos) = NumSources
            /\ \A k \in 1..Len(call'.repos) :
                  /\ call'.repos[k].src = k - 1
                  /\ call'.repos[k].t = clamped
                  /\ call'.repos[k].bSkipping = call'.args[2]
    ]_vars

C7_Witness ==
    /\ call.op = "Reposition"
    /\ mTimesAndSpeed.mT0 > mTimesAndSpeed.mT1
    /\ call.args[1] > mTimesAndSpeed.mT0
    /\ mTimesAndSpeed.mTime = mTimesAndSpeed.mT0
    /\ Len(call.repos) = 2
    /\ call.repos[2].t = mTimesAndSpeed.mT0

\* C8: SetTimesAndSpeed(t0, t1, speed, isScrubbing) stores t0 and t1 as the
\* bounds and |speed| as the speed, sets currentTime to t0 and repositions
\* every source to t0, all before the next call starts.
C8_SetTimesAndSpeed ==
    call.op = "SetTimesAndSpeed" =>
        /\ mTimesAndSpeed.mT0 = call.args[1]
        /\ mTimesAndSpeed.mT1 = call.args[2]
        /\ mTimesAndSpeed.mSpeed =
              (IF call.args[3] < 0 THEN 0 - call.args[3] ELSE call.args[3])
        /\ mTimesAndSpeed.mSpeed >= 0
        /\ mTimesAndSpeed.mTime = call.args[1]
        /\ Len(call.repos) = NumSources
        /\ \A k \in 1..Len(call.repos) :
              /\ call.repos[k].src = k - 1
              /\ call.repos[k].t = call.args[1]

C8_Witness ==
    /\ call.op = "SetTimesAndSpeed"
    /\ call.args[3] < 0
    /\ mTimesAndSpeed.mSpeed = 2
    /\ mTimesAndSpeed.mT0 > mTimesAndSpeed.mT1
    /\ mTimesAndSpeed.mTime = mTimesAndSpeed.mT0
    /\ Len(call.repos) = 2

\* C9: SetSpeedForKeyboardScrubbing(speed, startTime) with a speed whose
\* sign conflicts with the direction of the bounds stores the bounds
\* (0, MAX) for a positive speed and (MAX, 0) for a negative one, sets
\* currentTime to startTime clamped into [0, MAX], repositions every source
\* to it and stores |speed|.
C9_ScrubbingDirectionFlip ==
    [][(/\ call'.op = "SetSpeedForKeyboardScrubbing"
        /\ \/ call'.args[1] > 0 /\ mTimesAndSpeed.mT1 < mTimesAndSpeed.mT0
           \/ call'.args[1] < 0 /\ mTimesAndSpeed.mT1 > mTimesAndSpeed.mT0)
       =>
        LET speed == call'.args[1]
            startTime == call'.args[2]
            clamped == IF startTime < 0 THEN 0
                       ELSE IF startTime > DBL_MAX THEN DBL_MAX
                       ELSE startTime
        IN  /\ speed > 0 => /\ mTimesAndSpeed'.mT0 = 0
                            /\ mTimesAndSpeed'.mT1 = DBL_MAX
            /\ speed < 0 => /\ mTimesAndSpeed'.mT0 = DBL_MAX
                            /\ mTimesAndSpeed'.mT1 = 0
            /\ (mTimesAndSpeed'.mT0 < mTimesAndSpeed'.mT1) <=> (speed > 0)
            /\ mTimesAndSpeed'.mTime = clamped
            /\ mTimesAndSpeed'.mSpeed = (IF speed < 0 THEN 0 - speed ELSE speed)
            /\ Len(call'.repos) = NumSources
            /\ \A k \in 1..Len(call'.repos) :
                  /\ call'.repos[k].src = k - 1
                  /\ call'.repos[k].t = clamped
    ]_vars

C9_Witness ==
    /\ call.op = "SetSpeedForKeyboardScrubbing"
    /\ call.args[1] < 0
    /\ mTimesAndSpeed.mT0 = DBL_MAX
    /\ mTimesAndSpeed.mT1 = 0
    /\ mTimesAndSpeed.mSpeed = 2
    /\ call.args[2] < 0
    /\ mTimesAndSpeed.mTime = 0
    /\ Len(call.repos) = 2

\* C10: with one mono source, no mixer specification, applyTrackGains false
\* and two output channels, a Process(n) in which the source acquires n
\* frames returns n, and both accumulation buffers hold the source's sample
\* f at every frame f < n.
C10_MonoToStereo ==
    (/\ Cardinality(DOMAIN inputTracks) = 1
     /\ inputTracks[0].role = "MonoChannel"
     /\ ~mixerSpec.present
     /\ ~mApplyTrackGains
     /\ mNumChannels = 2
     /\ call.op = "Process"
     /\ Len(call.asked) = 1
     /\ call.asked[1].ok
     /\ call.asked[1].n = call.args[1])
    =>
        /\ call.ret = call.args[1]
        /\ Len(call.mixed) = 1
        /\ \A f \in Idx(call.args[1]) :
              /\ mTemp[0][f] = call.mixed[1].data[f]
              /\ mTemp[1][f] = call.mixed[1].data[f]

C10_Witness ==
    /\ Cardinality(DOMAIN inputTracks) = 1
    /\ inputTracks[0].role = "MonoChannel"
    /\ ~mixerSpec.present
    /\ ~mApplyTrackGains
    /\ mNumChannels = 2
    /\ call.op = "Process"
    /\ call.args[1] = mBufferSize
    /\ call.ret = mBufferSize
    /\ \A f \in Idx(mBufferSize) : mTemp[0][f] = 1 /\ mTemp[1][f] = 1

\* A successful Process: the last call was Process and no Acquire gave none
ProcessSucceeded ==
    /\ call.op = "Process"
    /\ \A k \in 1..Len(call.asked) : call.asked[k].ok

\* What the calls of MixBuffers from the k-th on add to frame f of output
\* channel c: the samples of the calls flagged for c, times the gains passed
RECURSIVE FlaggedSum(_, _, _, _)
FlaggedSum(mixed, k, c, f) ==
    IF k > Len(mixed) THEN 0
    ELSE (IF mixed[k].flags[c] /\ f < mixed[k].len
          THEN mixed[k].data[f] * mixed[k].gains[c] ELSE 0)
         + FlaggedSum(mixed, k + 1, c, f)

\* Two mono sources, each sent by the mixer specification to the output
\* channel of its own index alone, track gains not applied
OneToOneRouted ==
    /\ NumSources = 2
    /\ \A s \in DOMAIN mSources : Channels(s) = 1 /\ mSources[s].hasMap
    /\ mNumChannels = 2
    /\ \A t \in Idx(2), c \in Idx(2) : mixerSpec.mMap[t][c] = (t = c)
    /\ ~mApplyTrackGains

\* C11: after a successful Process every frame of output channel c is the sum
\* of the samples of the source channels flagged for c and of nothing else;
\* with two mono sources routed one to one, channel s of the accumulation
\* buffers and of the output holds the samples source s gave (and zero in
\* the frames it did not give).
C11_NoCrossLeakage ==
    ProcessSucceeded =>
        /\ \A c \in DOMAIN mTemp : \A f \in DOMAIN mTemp[c] :
              mTemp[c][f] = FlaggedSum(call.mixed, 1, c, f)
        /\ OneToOneRouted =>
              \A s \in Idx(2) : \A f \in Idx(mBufferSize) :
                 LET own == IF f < call.asked[s + 1].n
                            THEN call.mixed[s + 1].data[f] ELSE 0
                 IN  /\ mTemp[s][f] = own
                     /\ f < call.ret /\ ~mInterleaved =>
                           mBuffer[s][f] = <<ConvertSample(own, mFormat)>>

C11_Witness ==
    /\ ProcessSucceeded
    /\ OneToOneRouted
    /\ call.ret = mBufferSize
    /\ \A k \in 1..2 : call.asked[k].n = mBufferSize
    /\ \A f \in Idx(mBufferSize) :
          /\ call.mixed[1].data[f] = 1 /\ call.mixed[2].data[f] = 0
          /\ mTemp[0][f] = 1 /\ mTemp[1][f] = 0
          /\ mBuffer[0][f] = <<1>> /\ mBuffer[1][f] = <<0>>

\* Every sample the sources gave in the last Process is zero
AcquiredSilence ==
    \A k \in 1..Len(call.mixed) :
        \A f \in Idx(call.mixed[k].len) : call.mixed[k].data[f] = 0

\* The frame that slot i of an output buffer belongs to
FrameOfSlot(i) == IF mInterleaved THEN i \div mNumChannels ELSE i

\* C12: when every sample acquired in a Process call is zero, every entry of
\* the accumulation buffers is zero after it and so is every output frame it
\* produced, whatever the routing, the track gains and the contents earlier
\* calls left.
C12_Silence ==
    call.op = "Process" /\ AcquiredSilence =>
        /\ \A c \in DOMAIN mTemp : \A f \in DOMAIN mTemp[c] : mTemp[c][f] = 0
        /\ ProcessSucceeded =>
              \A b \in DOMAIN mBuffer : \A i \in DOMAIN mBuffer[b] :
                 FrameOfSlot(i) < call.ret => mBuffer[b][i] = <<0>>

C12_Witness ==
    /\ call.op = "Process" /\ AcquiredSilence /\ ProcessSucceeded
    /\ mApplyTrackGains /\ call.gainOf[0][0] = 2
    /\ mFormat = "int16Sample"
    /\ Len(call.mixed) = 2 /\ call.mixed[1].len = 1 /\ call.mixed[2].len = 0
    /\ call.ret = 1
    /\ mTemp[0][0] = 0 /\ mTemp[0][1] = 0
    /\ mBuffer[0][0] = <<0>>
    /\ mBuffer[0][1] # <<>> /\ mBuffer[0][1] # <<0>>

\* The calls of MixBuffers of the last Process, taken source by source in
\* the order p of the sources, from the k-th source of p on
RECURSIVE MixedInOrder(_, _)
MixedInOrder(p, k) ==
    IF k >= NumSources THEN <<>>
    ELSE SelectSeq(call.mixed, LAMBDA m : m.src = p[k])
         \o MixedInOrder(p, k + 1)

\* The results of Acquire of the last Process in the order p of the sources
AskedInOrder(p) == [k \in 1..Len(call.asked) |-> call.asked[p[k - 1] + 1]]

\* C13: when every source acquires, Process gives the same frame count and
\* the same accumulation buffers whatever the order of the sources: mixing
\* the same acquired data in any permuted order gives what Process left.
C13_OrderIndependence ==
    ProcessSucceeded =>
        \A p \in Permutations(DOMAIN mSources) :
            /\ MixAll(MixedInOrder(p, 0), 1, Clear) = mTemp
            /\ ProcessResult(AskedInOrder(p)) = call.ret

C13_Witness ==
    /\ ProcessSucceeded
    /\ NumSources = 3 /\ mNumChannels = 1 /\ ~mSources[0].hasMap
    /\ call.asked[1].n = 2 /\ call.asked[2].n = 1 /\ call.asked[3].n = 0
    /\ call.mixed[1].gains[0] = 2 /\ call.mixed[2].gains[0] = 3
    /\ mTemp[0][0] = 5 /\ mTemp[0][1] = 2
    /\ call.ret = 2

\* The index in inputTracks just past the group of the last source
SourcesEnd ==
    IF NumSources = 0 THEN 0
    ELSE mSources[NumSources - 1].leader + mSources[NumSources - 1].nChannels

\* C17: the constructor makes one source for each leader's channel group, in
\* input order: the first group starts at index 0, each next one where the
\* one before ends, every leader is non-null and its group lies within the
\* list; the loop stops only at the end of the list, at a null leader or at
\* a group that would run past the end, and makes no source from there on.
\* The source whose leader is at index i has the rows of the map from row i
\* on, one for each of its channels (no map when there is no mixer
\* specification in use), so no row belongs to two sources.
C17_OneSourcePerGroup ==
    LET nTracks == Cardinality(DOMAIN inputTracks)
    IN  /\ NumSources > 0 => mSources[0].leader = 0
        /\ \A s \in DOMAIN mSources :
              /\ ~inputTracks[mSources[s].leader].isNull
              /\ mSources[s].nChannels
                    = inputTracks[mSources[s].leader].nChannels
              /\ mSources[s].leader + mSources[s].nChannels <= nTracks
              /\ s + 1 < NumSources =>
                    mSources[s + 1].leader
                      = mSources[s].leader + mSources[s].nChannels
              /\ mSources[s].hasMap
                    = (mixerSpec.present /\ ~MixerSpecMismatched)
        /\ \/ SourcesEnd = nTracks
           \/ inputTracks[SourcesEnd].isNull
           \/ SourcesEnd + inputTracks[SourcesEnd].nChannels > nTracks
        /\ \A s \in DOMAIN mSources, r \in DOMAIN mSources :
              s # r =>
                \A j \in Idx(mSources[s].nChannels),
                   i \in Idx(mSources[r].nChannels) :
                    mSources[s].leader + j # mSources[r].leader + i
        /\ call.op = "Process" =>
              \A k \in 1..Len(call.mixed) :
                 LET m == call.mixed[k]
                 IN  /\ m.track = mSources[m.src].leader + m.ch
                     /\ m.map = IF mixerSpec.present /\ ~MixerSpecMismatched
                                THEN [isNull |-> FALSE,
                                      row |-> mixerSpec.mMap[m.track]]
                                ELSE [isNull |-> TRUE]

C17_Witness ==
    /\ Cardinality(DOMAIN inputTracks) = 3
    /\ inputTracks[0].nChannels = 2 /\ ~inputTracks[1].isNull
    /\ inputTracks[2].isNull
    /\ mixerSpec.present /\ mNumChannels = 3
    /\ NumSources = 1 /\ mSources[0].leader = 0 /\ mSources[0].nChannels = 2
    /\ ProcessSucceeded
    /\ Len(call.mixed) = 2
    /\ call.mixed[1].map.row = mixerSpec.mMap[0]
    /\ call.mixed[2].map.row = mixerSpec.mMap[1]
    /\ call.mixed[1].map.row # call.mixed[2].map.row

\* The channels of source s that the last Process passed to MixBuffers
ChannelsMixed(s) ==
    {call.mixed[k].ch : k \in {i \in 1..Len(call.mixed) : call.mixed[i].src = s}}

\* C19 as claimed: Process accumulates min(sourceChannels, numOutChannels)
\* channels of every source that acquired.
C19_ChannelsMinOfSourceAndOutputs ==
    call.op = "Process" =>
        \A s \in DOMAIN mSources :
            s < Len(call.asked) /\ call.asked[s + 1].ok =>
                ChannelsMixed(s) = Idx(Min(Channels(s), mNumChannels))

\* C19, amended: Process accumulates the first min(sourceChannels, 2)
\* channels of every source that acquired, 2 being the channel count of the
\* float buffers the sources fill, whatever the number of output channels:
\* both channels of a stereo source with one output channel, the first two
\* of a three-channel source with three.
C19_ChannelsMinOfSourceAndTwo ==
    call.op = "Process" =>
        \A s \in DOMAIN mSources :
            s < Len(call.asked) /\ call.asked[s + 1].ok =>
                /\ ChannelsMixed(s) = Idx(Min(Channels(s), 2))
                /\ Cardinality({k \in 1..Len(call.mixed) : call.mixed[k].src = s})
                     = Min(Channels(s), 2)
                /\ Channels(s) = 2 /\ mNumChannels = 1 =>
                     ChannelsMixed(s) = {0, 1}
                /\ Channels(s) = 3 /\ mNumChannels = 3 =>
                     ChannelsMixed(s) = {0, 1}

C19_Witness ==
    /\ ProcessSucceeded
    /\ mNumChannels = 1 /\ ~mixerSpec.present
    /\ NumSources = 1 /\ Channels(0) = 2
    /\ inputTracks[1].role = "MonoChannel"
    /\ call.asked[1].n = mBufferSize
    /\ ChannelsMixed(0) = {0, 1}
    /\ call.mixed[1].flags[0] /\ call.mixed[2].flags[0]
    /\ mTemp[0][0] = call.mixed[1].gains[0] + call.mixed[2].gains[0]
    /\ mTemp[0][0] = 5

\* The gain the claim gives the contribution of a track to output channel c
ClaimedGain(track, c) ==
    IF mApplyTrackGains THEN call.gainOf[track][c] ELSE 1

\* What the calls of MixBuffers from the k-th on should add to frame f of
\* output channel c: each flagged sample times the claimed gain
RECURSIVE GainedSum(_, _, _, _)
GainedSum(mixed, k, c, f) ==
    IF k > Len(mixed) THEN 0
    ELSE (IF mixed[k].flags[c] /\ f < mixed[k].len
          THEN mixed[k].data[f] * ClaimedGain(mixed[k].track, c) ELSE 0)
         + GainedSum(mixed, k + 1, c, f)

\* C20: without applyTrackGains every contribution is added with gain 1,
\* whatever gains the tracks have; with it, the contribution of a source
\* channel to a flagged output channel c is its sample times the
\* GetChannelGain(c) of that same channel's track, and of no other.
C20_PerChannelGain ==
    call.op = "Process" =>
        /\ \A k \in 1..Len(call.mixed) : \A c \in Idx(mNumChannels) :
              call.mixed[k].gains[c] = ClaimedGain(call.mixed[k].track, c)
        /\ \A c \in DOMAIN mTemp : \A f \in DOMAIN mTemp[c] :
              mTemp[c][f] = GainedSum(call.mixed, 1, c, f)

C20_Witness ==
    /\ ProcessSucceeded /\ mApplyTrackGains
    /\ NumSources = 2 /\ ~mixerSpec.present
    /\ \A t \in Idx(2) : inputTracks[t].role = "MonoChannel"
    /\ \A k \in 1..2 : call.asked[k].n = mBufferSize
    /\ call.gainOf[0][0] = 2 /\ call.gainOf[0][1] = 3
    /\ call.gainOf[1][0] = 4 /\ call.gainOf[1][1] = 5
    /\ mTemp[0][0] = 6 /\ mTemp[1][0] = 8

\* C14: while a source is exhausted (its Acquire has given none), a Process
\* call returns 0 and leaves the source exhausted; the source leaves that
\* state only in a call that repositions every source: Reposition,
\* SetTimesAndSpeed, or a SetSpeedForKeyboardScrubbing that finds the
\* direction changed.
C14_ExhaustionTerminal ==
    [][\A s \in DOMAIN srcState :
          srcState[s] = "Exhausted" =>
            /\ call'.op = "Process" =>
                  call'.ret = 0 /\ srcState'[s] = "Exhausted"
            /\ srcState'[s] # "Exhausted" =>
                  /\ call'.op \in {"Reposition", "SetTimesAndSpeed",
                                   "SetSpeedForKeyboardScrubbing"}
                  /\ Len(call'.repos) = NumSources
            /\ (/\ call'.op = "SetSpeedForKeyboardScrubbing"
                /\ ~DirectionChanged(call'.args[1], mTimesAndSpeed.mT0,
                                     mTimesAndSpeed.mT1)) =>
                  srcState'[s] = "Exhausted"]_vars

C14_Witness ==
    /\ NumSources = 2
    /\ srcState[0] = "Exhausted" /\ srcState[1] = "Exhausted"
    /\ call.op = "Process" /\ call.args[1] = mBufferSize
    /\ Len(call.asked) = 1 /\ ~call.asked[1].ok
    /\ call.ret = 0

\* C15: a Process call asked for 0 frames is rejected: it asks no source and
\* leaves the times, the sources, the accumulation buffers and the output
\* buffers as they were.
C15_ZeroFramesRejected ==
    [][call'.op = "Process" /\ call'.args[1] = 0 =>
          /\ Len(call'.asked) = 0
          /\ mTimesAndSpeed' = mTimesAndSpeed
          /\ srcState' = srcState
          /\ mTemp' = mTemp
          /\ mBuffer' = mBuffer]_vars

\* What n valid frames of channel c are in the slots of an output buffer:
\* frame f of the channel, converted, at its place in the layout
HoldsFrames(slots, c, n) ==
    \A f \in Idx(n) :
        slots[IF mInterleaved THEN f * mNumChannels + c ELSE f]
            = <<ConvertSample(mTemp[c][f], mFormat)>>

\* C16 as claimed: after a Process call that returns n, GetBuffer(c) refers
\* for every output channel c to an allocated buffer holding n valid frames
\* of channel c, in either layout.
C16_GetBufferEveryChannel ==
    call.op = "Process" =>
        \A c \in Idx(mNumChannels) :
            /\ GetBuffer(c).allocated
            /\ HoldsFrames(GetBuffer(c).slots, c, call.ret)

\* C16, amended: after a Process call that returns n, in the planar layout
\* GetBuffer(c) refers for every output channel c to an allocated buffer
\* holding n valid frames of channel c; in the interleaved layout only
\* GetBuffer(0) refers to a buffer, which holds n valid frames of every
\* channel interleaved, and GetBuffer(c) for c >= 1 refers to none.
C16_GetBufferPlanarOrFirst ==
    call.op = "Process" =>
        \A c \in Idx(mNumChannels) :
            IF mInterleaved
            THEN /\ GetBuffer(c).allocated = (c = 0)
                 /\ HoldsFrames(GetBuffer(0).slots, c, call.ret)
            ELSE /\ GetBuffer(c).allocated
                 /\ HoldsFrames(GetBuffer(c).slots, c, call.ret)

C16_Witness ==
    /\ ProcessSucceeded /\ mInterleaved /\ mNumChannels = 2
    /\ mixerSpec.present /\ mFormat = "int16Sample"
    /\ call.asked[1].n = 2 /\ call.asked[2].n = 1
    /\ call.ret = 2
    /\ GetBuffer(0).allocated /\ ~GetBuffer(1).allocated
    /\ GetBuffer(0).slots[0] = <<16384>> /\ GetBuffer(0).slots[1] = <<16384>>
    /\ GetBuffer(0).slots[2] = <<16384>> /\ GetBuffer(0).slots[3] = <<0>>

\* C18: when the Acquire of every source succeeds, Process returns the
\* largest of the counts they gave (0 with no source), and that many frames
\* of every channel are converted into the output buffers: the slots of the
\* frames below it are written, the others are left as they were.
C18_ReturnsMaxOfCounts ==
    [][(/\ call'.op = "Process"
        /\ \A k \in 1..Len(call'.asked) : call'.asked[k].ok) =>
          /\ \A k \in 1..Len(call'.asked) : call'.asked[k].n <= call'.ret
          /\ IF Len(call'.asked) = 0 THEN call'.ret = 0
             ELSE \E k \in 1..Len(call'.asked) : call'.asked[k].n = call'.ret
          /\ \A b \in DOMAIN mBuffer : \A i \in DOMAIN mBuffer[b] :
                IF FrameOfSlot(i) < call'.ret
                THEN mBuffer'[b][i]
                       = <<ConvertSample(
                             mTemp'[IF mInterleaved THEN i % mNumChannels
                                    ELSE b][FrameOfSlot(i)], mFormat)>>
                ELSE mBuffer'[b][i] = mBuffer[b][i]]_vars

C18_Witness ==
    /\ ProcessSucceeded /\ ~mInterleaved /\ mNumChannels = 1
    /\ call.asked[1].n = 1 /\ call.asked[2].n = 0
    /\ call.ret = 1
    /\ mBuffer[0][0] = <<1>> /\ mBuffer[0][1] = <<2>>
    /\ mFormat = "floatSample"

\* C21: a Process call in which every source acquires leaves mTime between
\* the mTime it started with and mT1, in the direction of play.
C21_ProcessTimeMonotone ==
    [][(/\ call'.op = "Process"
        /\ \A k \in 1..Len(call'.asked) : call'.asked[k].ok) =>
          IF mTimesAndSpeed.mT0 <= mTimesAndSpeed.mT1
          THEN /\ mTimesAndSpeed.mTime <= mTimesAndSpeed'.mTime
               /\ mTimesAndSpeed'.mTime <= mTimesAndSpeed.mT1
          ELSE /\ mTimesAndSpeed.mT1 <= mTimesAndSpeed'.mTime
               /\ mTimesAndSpeed'.mTime <= mTimesAndSpeed.mTime]_vars

C21_Witness ==
    /\ ProcessSucceeded /\ NumSources = 2
    /\ mTimesAndSpeed.mT0 > mTimesAndSpeed.mT1
    /\ mTimesAndSpeed.mTime = mTimesAndSpeed.mT1
    /\ call.asked[1].n = mBufferSize /\ call.ret = mBufferSize

\* C28: whenever Process reaches its final clamp (every source having
\* acquired), the bounds of the clamp are in order: the mTime the call
\* started with is at most mT1 when mT0 <= mT1 and at least mT1 otherwise,
\* after any sequence of calls.
C28_ClampBoundsOrdered ==
    [][(/\ call'.op = "Process"
        /\ \A k \in 1..Len(call'.asked) : call'.asked[k].ok) =>
          IF mTimesAndSpeed.mT0 <= mTimesAndSpeed.mT1
          THEN mTimesAndSpeed.mTime <= mTimesAndSpeed.mT1
          ELSE mTimesAndSpeed.mTime >= mTimesAndSpeed.mT1]_vars

C28_Witness ==
    /\ ProcessSucceeded /\ NumSources = 2
    /\ mTimesAndSpeed.mT0 < mTimesAndSpeed.mT1
    /\ mTimesAndSpeed.mTime = mTimesAndSpeed.mT1
    /\ call.asked[2].n = mBufferSize /\ call.ret = mBufferSize

\* The slot of the output buffers that frame f of channel c belongs to: the
\* buffer and the index in it
SlotOf(c, f) ==
    IF mInterleaved THEN <<0, f * mNumChannels + c>> ELSE <<c, f>>

\* C22: a Process call that returns n stores the converted accumulation
\* entry (c, f), for every output channel c and frame f < n, at index
\* f * numOutChannels + c of the one buffer when interleaved and at index f
\* of buffer c when planar; no two entries share a slot, and every other
\* slot is left as it was.
C22_OutputLayout ==
    [][call'.op = "Process" =>
          LET n == call'.ret
              Written == {SlotOf(c, f) : c \in Idx(mNumChannels), f \in Idx(n)}
          IN  /\ mInterleaved => DOMAIN mBuffer' = {0}
              /\ ~mInterleaved => DOMAIN mBuffer' = Idx(mNumChannels)
              /\ \A c \in Idx(mNumChannels), f \in Idx(n) :
                    mBuffer'[SlotOf(c, f)[1]][SlotOf(c, f)[2]]
                      = <<ConvertSample(mTemp'[c][f], mFormat)>>
              /\ Cardinality(Written) = mNumChannels * n
              /\ \A b \in DOMAIN mBuffer : \A i \in DOMAIN mBuffer[b] :
                    <<b, i>> \notin Written => mBuffer'[b][i] = mBuffer[b][i]]_vars

C22_Witness ==
    /\ ProcessSucceeded /\ mInterleaved /\ mNumChannels = 2
    /\ mixerSpec.present /\ mFormat = "floatSample"
    /\ call.asked[1].n = 1 /\ call.asked[2].n = 0
    /\ call.ret = 1
    /\ mBuffer[0][0] = <<1>> /\ mBuffer[0][1] = <<0>>
    /\ mBuffer[0][2] = <<0>> /\ mBuffer[0][3] = <<1>>

\* C23: the buffers have the number and sizes given at construction in
\* every state, and every slot Process writes lies inside them: MixBuffers
\* is called with at most blockSize frames and writes frames below that
\* count of the flagged channels, all below numOutChannels, and the output
\* slots of the frames below the result lie within the one interleaved
\* buffer of blockSize * numOutChannels samples or the numOutChannels planar
\* buffers of blockSize samples.
C23_WritesInsideBuffers ==
    /\ DOMAIN mTemp = Idx(mNumChannels)
    /\ \A c \in DOMAIN mTemp : DOMAIN mTemp[c] = Idx(mBufferSize)
    /\ DOMAIN mBuffer = (IF mInterleaved THEN {0} ELSE Idx(mNumChannels))
    /\ \A b \in DOMAIN mBuffer :
          DOMAIN mBuffer[b]
            = Idx(IF mInterleaved THEN mBufferSize * mNumChannels
                  ELSE mBufferSize)
    /\ call.op = "Process" =>
          /\ call.args[1] <= mBufferSize
          /\ \A k \in 1..Len(call.mixed) :
                /\ DOMAIN call.mixed[k].flags = Idx(mNumChannels)
                /\ \A c \in Idx(mNumChannels), j \in Idx(call.mixed[k].len) :
                      call.mixed[k].flags[c] =>
                          c \in DOMAIN mTemp /\ j \in DOMAIN mTemp[c]
          /\ \A c \in Idx(mNumChannels), f \in Idx(call.ret) :
                /\ SlotOf(c, f)[1] \in DOMAIN mBuffer
                /\ SlotOf(c, f)[2] \in DOMAIN mBuffer[SlotOf(c, f)[1]]

C23_Witness ==
    /\ ProcessSucceeded /\ mInterleaved /\ mNumChannels = 2
    /\ call.args[1] = mBufferSize /\ call.ret = mBufferSize
    /\ \A k \in 1..2 : call.mixed[k].len = mBufferSize
    /\ mBuffer[0][mBufferSize * mNumChannels - 1] # <<>>
    /\ mTemp[1][mBufferSize - 1] = 2

\* C24: the accumulation buffers after a Process call, also one that an
\* Acquire giving none cut short, hold for every frame the sum of what the
\* calls of MixBuffers of that same call added and nothing of what the
\* buffers held before: all zero when the first source gave none.
C24_NoCarryOver ==
    [][call'.op = "Process" =>
          /\ \A c \in DOMAIN mTemp : \A f \in DOMAIN mTemp[c] :
                mTemp'[c][f] = FlaggedSum(call'.mixed, 1, c, f)
          /\ Len(call'.mixed) = 0 =>
                \A c \in DOMAIN mTemp : \A f \in DOMAIN mTemp[c] :
                    mTemp'[c][f] = 0]_vars

C24_Witness ==
    /\ call.op = "Process" /\ NumSources = 2
    /\ Len(call.asked) = 1 /\ ~call.asked[1].ok
    /\ \A c \in DOMAIN mTemp : \A f \in DOMAIN mTemp[c] : mTemp[c][f] = 0
    /\ mBuffer[1][0] # <<>> /\ mBuffer[1][0] # <<0>>

\* The sequence seq without its k-th element
Without(seq, k) == SubSeq(seq, 1, k - 1) \o SubSeq(seq, k + 1, Len(seq))

\* C27: in a successful Process a source that gave n frames adds nothing at
\* the frames from n on: there the accumulation buffers hold what mixing
\* the other source channels alone gives; and from the result of Process
\* on, every frame is zero.
C27_FramesWithinOwnCount ==
    ProcessSucceeded =>
        /\ \A k \in 1..Len(call.mixed) :
              LET n == call.asked[call.mixed[k].src + 1].n
                  others == MixAll(Without(call.mixed, k), 1, Clear)
              IN  \A c \in DOMAIN mTemp : \A f \in DOMAIN mTemp[c] :
                      f >= n => mTemp[c][f] = others[c][f]
        /\ \A c \in DOMAIN mTemp : \A f \in DOMAIN mTemp[c] :
              f >= call.ret => mTemp[c][f] = 0

C27_Witness ==
    /\ ProcessSucceeded /\ NumSources = 2 /\ ~mixerSpec.present
    /\ inputTracks[0].role = "MonoChannel"
    /\ call.asked[1].n = 1 /\ call.asked[2].n = 2
    /\ call.mixed[1].data[0] = 1
    /\ call.mixed[2].data[0] = 1 /\ call.mixed[2].data[1] = 1
    /\ mTemp[0][0] = 2 /\ mTemp[0][1] = 1
    /\ call.ret = 2

\* C29: SetSpeedForKeyboardScrubbing(speed, startTime) with a speed whose
\* sign does not go against the direction of the bounds (speed 0 and equal
\* bounds included) leaves mT0, mT1 and mTime as they were, repositions no
\* source and stores the absolute value of speed, whatever startTime is.
C29_ScrubbingSameDirection ==
    [][(/\ call'.op = "SetSpeedForKeyboardScrubbing"
        /\ ~(\/ (call'.args[1] > 0
                  /\ mTimesAndSpeed.mT1 < mTimesAndSpeed.mT0)
             \/ (call'.args[1] < 0
                  /\ mTimesAndSpeed.mT1 > mTimesAndSpeed.mT0))) =>
          /\ mTimesAndSpeed'.mT0 = mTimesAndSpeed.mT0
          /\ mTimesAndSpeed'.mT1 = mTimesAndSpeed.mT1
          /\ mTimesAndSpeed'.mTime = mTimesAndSpeed.mTime
          /\ mTimesAndSpeed'.mSpeed
                = (IF call'.args[1] < 0 THEN 0 - call'.args[1]
                   ELSE call'.args[1])
          /\ call'.repos = <<>>
          /\ srcState' = srcState
          /\ mTemp' = mTemp /\ mBuffer' = mBuffer]_vars

C29_Witness ==
    /\ call.op = "SetSpeedForKeyboardScrubbing"
    /\ call.args[1] = 0 - 2 /\ call.args[2] = MaxTime + 1
    /\ mTimesAndSpeed.mT0 = MaxTime /\ mTimesAndSpeed.mT1 = 0
    /\ mTimesAndSpeed.mTime = 0 - 1
    /\ mTimesAndSpeed.mSpeed = 2
    /\ NumSources = 2 /\ srcState[1] = "Exhausted"
    /\ call.repos = <<>>

\* C26: construction terminates for every input track list and every number
\* of output channels: a leader whose channel group has size 0 stops the
\* loop over the input tracks, which makes at most one iteration (and one
\* source) for each input track.
C26_ConstructionTerminates ==
    /\ ctor.iterations <= Cardinality(DOMAIN inputTracks)
    /\ \A s \in DOMAIN mSources : mSources[s].nChannels > 0

\* Both calls have returned
BothReturned == race.audio = "done" /\ race.control = "done"

C30_CallbackOnceRetriesBounded ==
    \A id \in DOMAIN upload.log :
        /\ upload.log[id].callbacks <= 1
        /\ upload.log[id].PUT <= 3
        /\ upload.log[id].CONFIRM <= 3
        /\ upload.log[id].FAIL <= 3

\* An upload whose PUT succeeded at the third attempt, whose confirming POST
\* failed three times and whose failing POST was sent three times has been
\* removed, its callback called once with the failure
C30_Witness ==
    \E id \in DOMAIN upload.log :
        /\ upload.log[id] = [callbacks |-> 1, result |-> "ConnectionFailed",
                             PUT |-> 3, CONFIRM |-> 3, FAIL |-> 3,
                             removed |-> TRUE]
        /\ \A k \in DOMAIN upload.mResponses : upload.mResponses[k].id # id

====
